---- MODULE Spec2Model ----
(***************************************************************************)
(* G6 Ink Studio: the calibration state (absorbance matrix and its         *)
(* pseudo-inverse), the loaded image, the derived channel maps and the     *)
(* composite, as kept by InkSeparationApp (src/app.py) on top of the       *)
(* colour model (src/color_model.py).                                      *)
(*                                                                         *)
(* Numbers.  A float is a fixed-point integer in units of 1e-4 (0.95 is    *)
(* 9500); the IEEE specials are integers outside the finite range.  Slider *)
(* values are in units of 1e-2.                                            *)
(*                                                                         *)
(* Derived buffers.  The pseudo-inverse and the channel maps are results   *)
(* of numpy pipelines over all pixels; the model keeps each as the term    *)
(* that produced it: the operation applied and the values of every input   *)
(* the code read.  Two buffers are equal when they were computed by the    *)
(* same operations from the same inputs.                                   *)
(***************************************************************************)
EXTENDS Integers, Sequences, FiniteSets, TLC

\* ---------------------------------------------------------------- floats

\* float32 values in fixed point: one unit is 1e-4.
Unit == 100 * 100

PosInf == 1000 * Unit
NegInf == 0 - PosInf
NaN == 2000 * Unit

IsFinite(v) == v > NegInf /\ v < PosInf

\* np.clip(v, lo, hi) on one element: nan stays nan, the infinities are clipped.
np_clip(v, lo, hi) ==
    IF v = NaN THEN NaN
    ELSE IF v < lo THEN lo
    ELSE IF v > hi THEN hi
    ELSE v

\* ------------------------------------------------------------ text fields

\* The text of an entry field or of a JSON string: <<kind, v>>.
\*   "dec"   a decimal literal of value v        "0.950", "1.5", "-0.2"
\*   "nan"   the text nan                        "inf"  the text inf
\*   "empty" the empty text                      "junk" any other text
Dec(v) == <<"dec", v>>
TextNaN == <<"nan", 0>>
TextInf == <<"inf", 0>>
TextEmpty == <<"empty", 0>>
TextJunk == <<"junk", 0>>

\* float(text) raises ValueError on the empty text and on text that is no number;
\* "nan" and "inf" are numbers to float().
FloatRaises(t) == t[1] \in {"empty", "junk"}

FloatOf(t) ==
    CASE t[1] = "dec" -> t[2]
      [] t[1] = "nan" -> NaN
      [] t[1] = "inf" -> IF t[2] < 0 THEN NegInf ELSE PosInf
      [] OTHER -> 0

\* f"{v:.3f}": three decimals, that is the nearest multiple of 10 units.
Round3(v) ==
    IF v >= 0 THEN ((v + 5) \div 10) * 10
    ELSE 0 - (((0 - v) + 5) \div 10) * 10

Format3f(v) ==
    IF v = NaN THEN TextNaN
    ELSE IF v = PosInf THEN TextInf
    ELSE IF v = NegInf THEN <<"inf", 0 - 1>>
    ELSE Dec(Round3(v))

\* --------------------------------------------------------------- matrices

Rows == 1..3
Cols == 1..6

\* A matrix is a tuple of rows, each a tuple of floats.
Shape(m) == IF Len(m) = 0 THEN <<0, 0>> ELSE <<Len(m), Len(m[1])>>

IsFiniteMatrix(m) == \A r \in 1..Len(m) : \A c \in 1..Len(m[r]) : IsFinite(m[r][c])

DEFAULT_ABSORBANCE ==
    << <<9500, 0, 0, 7000, 3000, 3300>>,
       <<0, 9500, 0, 7000, 5500, 3300>>,
       <<0, 0, 9500, 7000, 5500, 3300>> >>

\* np.linalg.pinv(m) where it returns: the 6x3 pseudo-inverse of m, kept as a term.
pinv_of(m) == [pinv_of |-> m, shape |-> <<Shape(m)[2], Shape(m)[1]>>]

DEFAULT_PINV == pinv_of(DEFAULT_ABSORBANCE)

\* The ways np.linalg.pinv(absorb) can end.  On a finite matrix (rank-deficient and
\* all-zero ones included) the SVD converges and the result is returned.  On a matrix
\* holding nan or inf LAPACK reports failure and numpy raises LinAlgError("SVD did
\* not converge"); builds whose LAPACK does not check return an all-nan result.
compute_pinv_outcomes(absorb) ==
    IF IsFiniteMatrix(absorb) THEN {"returns"} ELSE {"raises", "returns"}

compute_pinv(absorb) == pinv_of(absorb)

PresetNames == {"Orthogonal CMY (default)", "Neutral Gray Boost", "Soft Black"}

CALIB_PRESETS ==
    [name \in PresetNames |->
        CASE name = "Orthogonal CMY (default)" ->
                << <<9500, 0, 0, 7000, 3000, 3300>>,
                   <<0, 9500, 0, 7000, 5500, 3300>>,
                   <<0, 0, 9500, 7000, 5500, 3300>> >>
          [] name = "Neutral Gray Boost" ->
                << <<9500, 0, 0, 7000, 3000, 4500>>,
                   <<0, 9500, 0, 7000, 5500, 4500>>,
                   <<0, 0, 9500, 7000, 5500, 4500>> >>
          [] OTHER ->
                << <<9000, 0, 0, 5500, 2500, 3000>>,
                   <<0, 9000, 0, 5500, 5000, 3000>>,
                   <<0, 0, 9000, 5500, 5000, 3000>> >>]

\* ----------------------------------------------------------------- images

INK_CHANNELS == <<"cyan", "magenta", "yellow", "black", "red", "gray">>

Keys == {INK_CHANNELS[i] : i \in 1..Len(INK_CHANNELS)}

KeyIndex(key) == CHOOSE i \in 1..Len(INK_CHANNELS) : INK_CHANNELS[i] = key

\* original_image is None.
NoImage == [name |-> "none", size |-> <<0, 0>>]

NoPath == "none"

\* The files the Open Image dialog can return, and what Image.open(path).convert("RGB")
\* gives for each: a decoded image (its pixels named by the file, its size w x h),
\* or an exception for a file that is no image.
ImagePaths == {"a.png", "b.png", "broken.png"}

DecodeRaises(path) == path = "broken.png"

Decode(path) ==
    IF path = "a.png" THEN [name |-> "a.png", size |-> <<4, 2>>]
    ELSE [name |-> "b.png", size |-> <<3, 3>>]

Max(a, b) == IF a >= b THEN a ELSE b

\* The working image of _process_image: the source image, or its LANCZOS-resized copy
\* of size (max(1, int(w * scale)), max(1, int(h * scale))) when scale < 1.0.
WorkImage(img, scale) ==
    IF scale < 100
    THEN [src |-> img,
          size |-> <<Max(1, (img.size[1] * scale) \div 100),
                     Max(1, (img.size[2] * scale) \div 100)>>,
          resized |-> TRUE]
    ELSE [src |-> img, size |-> img.size, resized |-> FALSE]

\* ---------------------------------------------------------- channel maps

\* compute_channels(img): the (H, W, 6) stack computed from the working image and from
\* every field the code reads on the way: the dtype chosen by precision_mode, white
\* balance, gain, offset, the pseudo-inverse (channels_from_rgb_linear uses pinv
\* only), the red and gray multipliers, the contrast boost of _enhance_channel_maps
\* and, when ai_enabled, the strength given to refine_channels.  The dict returned
\* holds the six planes channels[..., i] of this one stack, one per key.
compute_channels(s, img) ==
    [img |-> img,
     dtype |-> IF s.precision_mode = "High" THEN "float64" ELSE "float32",
     wb |-> <<s.wb_r, s.wb_g, s.wb_b>>,
     gain |-> s.global_gain,
     offset |-> s.global_offset,
     pinv |-> s.absorb_pinv,
     red_boost |-> s.red_boost,
     gray_neutral |-> s.gray_neutral,
     contrast_boost |-> s.contrast_boost,
     ai |-> IF s.ai_enabled THEN s.ai_strength ELSE 0 - 1]

\* channel_arrays is {}: no maps.
NoChannels == <<>>

\* The spatial shape (w, h) of the six maps.
ChannelSize(channels) == channels.img.size

\* The image the six maps were computed from.
ChannelSource(channels) == channels.img.src

\* The values of the maps: channels_from_rgb_linear, the multipliers and the
\* enhancement each end in np.clip(.., 0.0, 1.0), which takes every number into [0,1]
\* and leaves nan as nan; pinv @ flat is nan in every element when pinv holds nan.
\* (refine_channels, of the module ai_enhance, is called on maps already in range;
\* what it returns is recorded in the stack by its strength only.)
ChannelsInUnitRange(channels) == IsFiniteMatrix(channels.pinv.pinv_of)

\* {key: _array_to_image(arr)}: the six planes quantised to 8 bits.
_array_to_image(channels) == [u8_of |-> channels]

NoComposite == <<>>

\* update_composite: returns early without channel maps or without an image; else
\* stacks the six planes, the disabled ones replaced by np.zeros_like, each resized
\* (8-bit, LANCZOS) when its size is not that of original_image; reconstructs (match:
\* through absorb_matrix) or tints; applies the view gamma when it is not 1.0 and
\* thumbnails to preview_size.
update_composite(s) ==
    IF s.channel_arrays = NoChannels THEN s
    ELSE IF s.original_image = NoImage THEN s
    ELSE LET target_size == s.original_image.size
             ch_stack == [of |-> s.channel_arrays,
                          zeroed |-> Keys \ s.channel_enabled,
                          size |-> target_size,
                          resized |-> ChannelSize(s.channel_arrays) # target_size]
             comp_img == IF s.composite_mode = "match"
                         THEN [mode |-> "match", ch_stack |-> ch_stack,
                               absorb |-> s.absorb_matrix]
                         ELSE [mode |-> "tint", ch_stack |-> ch_stack, absorb |-> <<>>]
         IN [s EXCEPT !.tk_composite =
                [comp |-> comp_img,
                 gamma |-> s.view_gamma,
                 thumbnail |-> s.preview_size]]

\* _process_image(full, silent): nothing without an image; else recomputes the channel
\* maps from the working image, the 8-bit channel images from them, and the composite.
_process_image(s, full) ==
    IF s.original_image = NoImage THEN s
    ELSE LET scale == IF full THEN 100 ELSE s.preview_scale
             work_img == WorkImage(s.original_image, scale)
             arrays == compute_channels(s, work_img)
             s1 == [s EXCEPT !.channel_arrays = arrays,
                             !.channel_images = _array_to_image(arrays)]
         IN update_composite(s1)

\* The export composite rendered in the composite mode of the screen: a faulty variant.
_composite_full_res_in_selected_mode(s) ==
    [mode |-> s.composite_mode,
     ch_stack |-> [of |-> s.channel_arrays,
                   zeroed |-> Keys \ s.channel_enabled,
                   size |-> ChannelSize(s.channel_arrays),
                   resized |-> FALSE],
     absorb |-> IF s.composite_mode = "match" THEN s.absorb_matrix ELSE <<>>]

\* _composite_full_res: the physical reconstruction of the enabled planes, whatever
\* the composite mode and the view gamma, at the size of the maps.
_composite_full_res(s) ==
    [mode |-> "match",
     ch_stack |-> [of |-> s.channel_arrays,
                   zeroed |-> Keys \ s.channel_enabled,
                   size |-> ChannelSize(s.channel_arrays),
                   resized |-> FALSE],
     absorb |-> s.absorb_matrix]

\* ------------------------------------------------------------ calibration

\* _load_matrix_to_entries(matrix): every field shows f"{matrix[r, c]:.3f}".
_load_matrix_to_entries(s, matrix) ==
    [s EXCEPT !.calib_entries =
        [r \in Rows |-> [c \in Cols |-> Format3f(matrix[r][c])]]]

\* The result of a handler: the object's fields when it ends, and how it ended:
\*   "ok"          ran to its end
\*   "error"       reported with messagebox.showerror and returned
\*   "cancelled"   returned at once (dialog dismissed, nothing to do)
\*   "exception"   left by an exception nothing catches (Tk logs it and goes on)
Result(s, out) == [s |-> s, out |-> out]

\* _apply_calibration.  pinv is how np.linalg.pinv ends on the entered matrix.
_apply_calibration(s, pinv) ==
    IF \E r \in Rows : \E c \in Cols : FloatRaises(s.calib_entries[r][c])
    THEN Result(s, "error")
    ELSE LET vals == [r \in Rows |-> [c \in Cols |->
                         np_clip(FloatOf(s.calib_entries[r][c]), 0, 12000)]]
             s1 == [s EXCEPT !.absorb_matrix = vals]
         IN IF pinv = "raises"
            THEN Result(s1, "exception")
            ELSE Result(_process_image(
                            [s1 EXCEPT !.absorb_pinv = compute_pinv(vals)], FALSE),
                        "ok")

\* Reset Default restoring the matrix alone.
_reset_calibration_keeping_pinv(s) ==
    LET s1 == [s EXCEPT !.absorb_matrix = DEFAULT_ABSORBANCE]
    IN Result(_process_image(_load_matrix_to_entries(s1, s1.absorb_matrix), FALSE), "ok")

\* _reset_calibration
_reset_calibration(s) ==
    LET s1 == [s EXCEPT !.absorb_matrix = DEFAULT_ABSORBANCE,
                        !.absorb_pinv = DEFAULT_PINV]
    IN Result(_process_image(_load_matrix_to_entries(s1, s1.absorb_matrix), FALSE), "ok")

\* _apply_preset, after the option menu has stored the chosen name in calib_preset.
_apply_preset(s, pinv) ==
    LET name == s.calib_preset IN
    IF name \notin DOMAIN CALIB_PRESETS
    THEN Result(s, "cancelled")
    ELSE LET mat == CALIB_PRESETS[name]
             s1 == [s EXCEPT !.absorb_matrix = mat]
         IN IF pinv = "raises"
            THEN Result(s1, "exception")
            ELSE Result(_process_image(
                            _load_matrix_to_entries(
                                [s1 EXCEPT !.absorb_pinv = compute_pinv(mat)], mat),
                            FALSE),
                        "ok")

\* -------------------------------------------------------- calibration files

\* A JSON cell: <<"num", v>> a number (NaN and Infinity are numbers to json.load),
\* <<"strnum", v>> a string holding the decimal v, <<"strjunk", 0>> any other
\* string, <<"null", 0>> null.
Num(v) == <<"num", v>>

\* A file: whether it exists, whether json.load parses it, whether the document has
\* the field absorb, and the rows of that field.
NoFile == [exists |-> FALSE, json |-> FALSE, has_absorb |-> FALSE, absorb |-> <<>>]

JsonFile(grid) == [exists |-> TRUE, json |-> TRUE, has_absorb |-> TRUE, absorb |-> grid]

GridOf(m) == [r \in 1..Len(m) |-> [c \in 1..Len(m[r]) |-> Num(m[r][c])]]

\* np.array(grid, dtype=np.float32) raises ValueError on rows of unequal length and
\* on a string that is no number; it converts numeric strings, and null to nan.
np_array_raises(grid) ==
    \/ \E r \in 1..Len(grid) : Len(grid[r]) # Len(grid[1])
    \/ \E r \in 1..Len(grid) : \E c \in 1..Len(grid[r]) : grid[r][c][1] = "strjunk"

np_array(grid) ==
    [r \in 1..Len(grid) |-> [c \in 1..Len(grid[r]) |->
        IF grid[r][c][1] = "null" THEN NaN ELSE grid[r][c][2]]]

\* The try block of _load_calibration_file: open, json.load, data["absorb"],
\* np.array and the shape test; any exception is reported.
LoadRaises(file) ==
    \/ ~file.exists
    \/ ~file.json
    \/ ~file.has_absorb
    \/ np_array_raises(file.absorb)
    \/ Shape(np_array(file.absorb)) # <<3, 6>>

\* _load_calibration_file.  chosen: whether the dialog returned a path; file: what
\* that path holds; pinv: how np.linalg.pinv ends on the loaded matrix.
_load_calibration_file(s, chosen, file, pinv) ==
    IF ~chosen THEN Result(s, "cancelled")
    ELSE IF LoadRaises(file) THEN Result(s, "error")
    ELSE LET mat == np_array(file.absorb)
             s1 == [s EXCEPT !.absorb_matrix = mat]
         IN IF pinv = "raises"
            THEN Result(s1, "exception")
            ELSE Result(_process_image(
                            _load_matrix_to_entries(
                                [s1 EXCEPT !.absorb_pinv = compute_pinv(mat)], mat),
                            FALSE),
                        "ok")

\* What _save_calibration_file writes: float(entry or 0) of every entry field, as
\* the float32 values' full-precision list.
SaveRaises(s) ==
    \E r \in Rows : \E c \in Cols : s.calib_entries[r][c][1] = "junk"

SavedDocument(s) ==
    JsonFile([r \in Rows |-> [c \in Cols |-> Num(FloatOf(s.calib_entries[r][c]))]])

\* ---------------------------------------------------------------- settings

\* The settings file CONFIG_PATH: whether it exists, and the values it holds.  applies
\* is the number of values, in the order _load_settings reads them, that are set
\* before an exception ends the loading: 13 for a well-formed file, 4 for one whose
\* contrast_boost is no number, 0 for one that is no JSON object.
SettingsFields == 13

Settings(s, applies) ==
    [exists |-> TRUE, applies |-> applies,
     preview_quality |-> s.preview_quality, calib_preset |-> s.calib_preset,
     preview_scale |-> s.preview_scale, precision_mode |-> s.precision_mode,
     contrast_boost |-> s.contrast_boost,
     wb_r |-> s.wb_r, wb_g |-> s.wb_g, wb_b |-> s.wb_b,
     global_gain |-> s.global_gain, global_offset |-> s.global_offset,
     view_gamma |-> s.view_gamma,
     ai_enabled |-> s.ai_enabled, ai_strength |-> s.ai_strength]

\* _load_settings that applies the stored preset as the preset menu would: a faulty
\* variant, in which the settings file decides the calibration at startup.
_load_settings_applying_preset(s, cfg) ==
    LET n == IF cfg.exists THEN cfg.applies ELSE 0 IN
    IF n >= 2
    THEN [s EXCEPT !.preview_quality = cfg.preview_quality,
                   !.calib_preset = cfg.calib_preset,
                   !.absorb_matrix = CALIB_PRESETS[cfg.calib_preset],
                   !.absorb_pinv = compute_pinv(CALIB_PRESETS[cfg.calib_preset])]
    ELSE s

\* _load_settings: the values are set one after the other; any exception is swallowed
\* and leaves the values already set.  The calibration pair is not touched.
_load_settings(s, cfg) ==
    LET n == IF cfg.exists THEN cfg.applies ELSE 0 IN
    [s EXCEPT !.preview_quality = IF n >= 1 THEN cfg.preview_quality ELSE @,
              !.calib_preset = IF n >= 2 THEN cfg.calib_preset ELSE @,
              !.preview_scale = IF n >= 3 THEN cfg.preview_scale ELSE @,
              !.precision_mode = IF n >= 4 THEN cfg.precision_mode ELSE @,
              !.contrast_boost = IF n >= 5 THEN cfg.contrast_boost ELSE @,
              !.wb_r = IF n >= 6 THEN cfg.wb_r ELSE @,
              !.wb_g = IF n >= 7 THEN cfg.wb_g ELSE @,
              !.wb_b = IF n >= 8 THEN cfg.wb_b ELSE @,
              !.global_gain = IF n >= 9 THEN cfg.global_gain ELSE @,
              !.global_offset = IF n >= 10 THEN cfg.global_offset ELSE @,
              !.view_gamma = IF n >= 11 THEN cfg.view_gamma ELSE @,
              !.ai_enabled = IF n >= 12 THEN cfg.ai_enabled ELSE @,
              !.ai_strength = IF n >= 13 THEN cfg.ai_strength ELSE @]

\* The fields as __init__ sets them before _load_settings.
Fields ==
    [original_path |-> NoPath,
     original_image |-> NoImage,
     channel_arrays |-> NoChannels,
     channel_images |-> NoChannels,
     tk_composite |-> NoComposite,
     channel_enabled |-> Keys,
     preview_size |-> <<880, 600>>,
     red_boost |-> 100,
     gray_neutral |-> 80,
     composite_mode |-> "match",
     absorb_matrix |-> DEFAULT_ABSORBANCE,
     absorb_pinv |-> DEFAULT_PINV,
     calib_entries |-> <<>>,
     preview_quality |-> "Medium",
     calib_preset |-> "Orthogonal CMY (default)",
     precision_mode |-> "Standard",
     contrast_boost |-> 100,
     preview_scale |-> 100,
     wb_r |-> 100,
     wb_g |-> 100,
     wb_b |-> 100,
     global_gain |-> 100,
     global_offset |-> 0,
     view_gamma |-> 100,
     ai_enabled |-> FALSE,
     ai_strength |-> 20]

\* InkSeparationApp(root): __init__ sets the fields, loads the settings and builds
\* the layout, which fills the entry grid from absorb_matrix.
InkSeparationApp(cfg) ==
    LET s == _load_settings(Fields, cfg)
    IN _load_matrix_to_entries(s, s.absorb_matrix)

\* The settings files the program may find at startup: none, and one written by an
\* earlier session whose contrast_boost has been edited into something that is no
\* number.
EarlierSession ==
    [Fields EXCEPT !.preview_quality = "High", !.calib_preset = "Soft Black",
                   !.preview_scale = 50, !.contrast_boost = 150, !.wb_r = 150]

NoSettings == [Settings(Fields, 0) EXCEPT !.exists = FALSE]

SettingsFiles == {NoSettings, Settings(EarlierSession, 4)}

\* ------------------------------------------------------------------ state

VARIABLES
    self,       \* the fields of the InkSeparationApp object
    timers,     \* the number of root.after(20, self._process_image) callbacks pending
    disk,       \* the calibration file written by Save JSON
    config,     \* the settings file CONFIG_PATH
    exports,    \* what export_all has written to the exports folder
    closed,     \* the window has been destroyed
    event,      \* the handler that ran last
    outcome,    \* how it ended
    steps,      \* the number of handlers that have run
    calc        \* a call of the colour pipeline on arrays of numbers (see ColorSpec)

vars == <<self, timers, disk, config, exports, closed, event, outcome, steps, calc>>

\* No call of the colour pipeline is followed.
NoCalc == [kind |-> "none"]

\* The number of handlers a run of the model executes.
MaxSteps == 3

Init ==
    /\ config \in SettingsFiles
    /\ self = InkSeparationApp(config)
    /\ timers = 0
    /\ disk = NoFile
    /\ exports = <<>>
    /\ closed = FALSE
    /\ event = "__init__"
    /\ outcome = "ok"
    /\ steps = 0
    /\ calc = NoCalc

Live == ~closed /\ steps < MaxSteps

\* A handler has run: the fields are s, and the handler ended as out.
Handled(s, ev, out) ==
    /\ self' = s
    /\ event' = ev
    /\ outcome' = out
    /\ steps' = steps + 1
    /\ calc' = calc

\* ----------------------------------------------------------------- inputs

\* The positions the sliders and menus are moved to (sliders in units of 1e-2).
RedBoostValues == {100, 200}
GrayNeutralValues == {80, 50}
PreviewQualityValues == {"Medium", "High"}
PreviewScaleValues == {100, 50}
PrecisionValues == {"Standard", "High"}
ContrastValues == {100, 150}
WbFields == {"wb_r", "wb_g", "wb_b"}
WbValues == {100, 150}
GainValues == {100, 150}
OffsetValues == {0, 10}
GammaValues == {100, 220}
AiStrengthValues == {20, 50}
CompositeModes == {"match", "tint"}
ResizeEvents == {<<1800, 720>>, <<1000, 700>>}

\* The channels whose checkbox is clicked.
ClickedChannels == {"cyan", "gray"}

\* The entry fields the user types into, and what is typed.
EditCells == {<<1, 1>>}
EntryTexts == {Dec(5000), Dec(15000), TextNaN, TextJunk, TextEmpty}

\* The calibration files offered to Load JSON.
Measured ==
    << <<8765, 0, 0, 7000, 3000, 3300>>,
       <<0, 9500, 0, 7000, 5500, 3300>>,
       <<0, 0, 9500, 7000, 5500, 1234>> >>

Zero == [r \in Rows |-> [c \in Cols |-> 0]]

WithCell(grid, r, c, cell) == [grid EXCEPT ![r][c] = cell]

CalibFiles ==
    {JsonFile(GridOf(Measured)),
     JsonFile(GridOf(Zero)),
     JsonFile(WithCell(WithCell(GridOf(Measured), 2, 2, Num(15000)), 1, 2, Num(0 - 2000))),
     [JsonFile(<<>>) EXCEPT !.has_absorb = FALSE],
     JsonFile(SubSeq(GridOf(Measured), 1, 2)),
     JsonFile(WithCell(GridOf(Measured), 1, 1, <<"strjunk", 0>>)),
     JsonFile(WithCell(GridOf(Measured), 1, 1, <<"strnum", 5000>>)),
     JsonFile(WithCell(GridOf(Measured), 1, 1, <<"null", 0>>))}

\* --------------------------------------------------------------- handlers

\* load_image with the path stored before the file is decoded: a faulty variant, in
\* which a failed decode leaves the path of the broken file behind.
load_image_storing_path_first(s, path) ==
    IF DecodeRaises(path)
    THEN [s |-> [s EXCEPT !.original_path = path], out |-> "error", after |-> 0]
    ELSE [s |-> [s EXCEPT !.original_path = path, !.original_image = Decode(path)],
          out |-> "ok", after |-> 1]

\* load_image(path): a file that does not decode is reported and nothing is stored;
\* else the path and the image are stored and _process_image is scheduled (after: the
\* number of callbacks added).
load_image(s, path) ==
    IF DecodeRaises(path)
    THEN [s |-> s, out |-> "error", after |-> 0]
    ELSE [s |-> [s EXCEPT !.original_path = path, !.original_image = Decode(path)],
          out |-> "ok", after |-> 1]

\* _on_params_change
_on_params_change(s) ==
    IF s.original_image = NoImage THEN s ELSE _process_image(s, FALSE)

\* _enable_all_channels
_enable_all_channels(s) == update_composite([s EXCEPT !.channel_enabled = Keys])

\* _reset_params
_reset_params(s) ==
    _process_image([s EXCEPT !.red_boost = 100, !.gray_neutral = 80], FALSE)

\* _reset_tuning that also puts the default calibration back: a faulty variant.
_reset_tuning_with_calibration(s) ==
    _process_image(
        [s EXCEPT !.preview_quality = "Medium", !.preview_scale = 100,
                  !.precision_mode = "Standard", !.contrast_boost = 100,
                  !.wb_r = 100, !.wb_g = 100, !.wb_b = 100,
                  !.global_gain = 100, !.global_offset = 0, !.view_gamma = 100,
                  !.ai_enabled = FALSE, !.ai_strength = 20,
                  !.absorb_matrix = DEFAULT_ABSORBANCE, !.absorb_pinv = DEFAULT_PINV],
        FALSE)

\* _reset_tuning
_reset_tuning(s) ==
    _process_image(
        [s EXCEPT !.preview_quality = "Medium", !.preview_scale = 100,
                  !.precision_mode = "Standard", !.contrast_boost = 100,
                  !.wb_r = 100, !.wb_g = 100, !.wb_b = 100,
                  !.global_gain = 100, !.global_offset = 0, !.view_gamma = 100,
                  !.ai_enabled = FALSE, !.ai_strength = 20],
        FALSE)

\* _on_composite_resize(event): the preview size that fits the frame; the composite is
\* rendered again only when that size changes.
_on_composite_resize(s, ev) ==
    LET usable_w == Max(ev[1] - 40, 120)
        each_w == Max(usable_w \div 2, 120)
        new_size == <<each_w, Max(ev[2] - 120, 120)>>
    IN IF new_size # s.preview_size
       THEN update_composite([s EXCEPT !.preview_size = new_size])
       ELSE s

\* _render_plate_rgba(key, hex) for the six keys: each channel image as the alpha of
\* a plate of the channel's colour.
_render_plate_rgba(s) == [alpha |-> s.channel_images]

\* export_all.  fail_at: the file whose writing fails ("none", "plate": the first
\* plate, "composite").  The result carries what the exports folder then holds.
export_all(s, written, fail_at) ==
    IF s.channel_images = NoChannels
    THEN [s |-> s, out |-> "cancelled", exports |-> written]
    ELSE LET s1 == _process_image(s, TRUE)
             plates == _render_plate_rgba(s1)
             comp == _composite_full_res(s1)
         IN IF fail_at = "plate"
            THEN [s |-> s1, out |-> "exception", exports |-> written]
            ELSE IF fail_at = "composite"
            THEN [s |-> s1, out |-> "exception",
                  exports |-> [stem |-> s1.original_path, plates |-> plates,
                               composite |-> IF written = <<>> THEN <<>>
                                             ELSE written.composite]]
            ELSE [s |-> _process_image(s1, FALSE), out |-> "ok",
                  exports |-> [stem |-> s1.original_path, plates |-> plates,
                               composite |-> comp]]

\* _save_calibration_file.  chosen: the dialog returned a path; write_ok: the file
\* could be written.  The result carries what the file then holds.
_save_calibration_file(s, file, chosen, write_ok) ==
    IF ~chosen THEN [out |-> "cancelled", file |-> file]
    ELSE IF SaveRaises(s) THEN [out |-> "exception", file |-> file]
    ELSE IF ~write_ok THEN [out |-> "error", file |-> file]
    ELSE [out |-> "ok", file |-> SavedDocument(s)]

\* ---------------------------------------------------------------- actions

\* Open Image: load_image runs on the chosen file.  (A dismissed dialog, here and in
\* Load JSON and Save JSON, returns at once and changes nothing: a stuttering step.)
OpenImage(path) ==
    /\ Live
    /\ LET r == load_image(self, path)
       IN /\ Handled(r.s, "load_image", r.out)
          /\ timers' = timers + r.after
    /\ UNCHANGED <<disk, config, exports, closed>>

\* A scheduled _process_image callback fires.
AfterCallback ==
    /\ ~closed
    /\ timers > 0
    /\ timers' = timers - 1
    /\ self' = _process_image(self, FALSE)
    /\ event' = "_process_image"
    /\ outcome' = "ok"
    /\ steps' = steps
    /\ UNCHANGED <<disk, config, exports, closed, calc>>

\* A widget that stores v in a field and then calls _on_params_change.
ParamsScale(field, v) ==
    /\ Live
    /\ v # self[field]
    /\ Handled(_on_params_change([self EXCEPT ![field] = v]), field, "ok")
    /\ UNCHANGED <<timers, disk, config, exports, closed>>

RedBoostScale == \E v \in RedBoostValues : ParamsScale("red_boost", v)

GrayNeutralScale == \E v \in GrayNeutralValues : ParamsScale("gray_neutral", v)

\* A widget that stores v in a field and then calls _process_image().
TuningWidget(field, v) ==
    /\ Live
    /\ v # self[field]
    /\ Handled(_process_image([self EXCEPT ![field] = v], FALSE), field, "ok")
    /\ UNCHANGED <<timers, disk, config, exports, closed>>

PreviewScaleMenu == \E v \in PreviewScaleValues : TuningWidget("preview_scale", v)

PrecisionMenu == \E v \in PrecisionValues : TuningWidget("precision_mode", v)

ContrastScale == \E v \in ContrastValues : TuningWidget("contrast_boost", v)

WhiteBalanceScale == \E f \in WbFields : \E v \in WbValues : TuningWidget(f, v)

GainScale == \E v \in GainValues : TuningWidget("global_gain", v)

OffsetScale == \E v \in OffsetValues : TuningWidget("global_offset", v)

GammaScale == \E v \in GammaValues : TuningWidget("view_gamma", v)

AiCheckbutton == TuningWidget("ai_enabled", ~self.ai_enabled)

AiStrengthScale == \E v \in AiStrengthValues : TuningWidget("ai_strength", v)

\* The Preview Quality menu has no command: the value is stored only.
PreviewQualityMenu ==
    /\ Live
    /\ \E v \in PreviewQualityValues \ {self.preview_quality} :
          Handled([self EXCEPT !.preview_quality = v], "preview_quality", "ok")
    /\ UNCHANGED <<timers, disk, config, exports, closed>>

ResetChannels ==
    /\ Live
    /\ Handled(_enable_all_channels(self), "_enable_all_channels", "ok")
    /\ UNCHANGED <<timers, disk, config, exports, closed>>

ResetParams ==
    /\ Live
    /\ Handled(_reset_params(self), "_reset_params", "ok")
    /\ UNCHANGED <<timers, disk, config, exports, closed>>

ResetTuning ==
    /\ Live
    /\ Handled(_reset_tuning(self), "_reset_tuning", "ok")
    /\ UNCHANGED <<timers, disk, config, exports, closed>>

\* A channel checkbox: the flag is flipped, then update_composite runs.
ChannelCheckbutton ==
    /\ Live
    /\ \E key \in ClickedChannels :
          Handled(update_composite(
                      [self EXCEPT !.channel_enabled =
                          IF key \in @ THEN @ \ {key} ELSE @ \cup {key}]),
                  "channel_enabled", "ok")
    /\ UNCHANGED <<timers, disk, config, exports, closed>>

\* A composite mode radio button: the mode is stored, then update_composite runs.
CompositeModeRadio ==
    /\ Live
    /\ \E m \in CompositeModes \ {self.composite_mode} :
          Handled(update_composite([self EXCEPT !.composite_mode = m]),
                  "composite_mode", "ok")
    /\ UNCHANGED <<timers, disk, config, exports, closed>>

\* A <Configure> event of the composite frame.
CompositeResize ==
    /\ Live
    /\ \E ev \in ResizeEvents :
          Handled(_on_composite_resize(self, ev), "_on_composite_resize", "ok")
    /\ UNCHANGED <<timers, disk, config, exports, closed>>

ExportAll ==
    /\ Live
    /\ \E fail_at \in {"none", "composite"} :
          LET r == export_all(self, exports, fail_at)
          IN /\ r.out = "cancelled" => fail_at = "none"
             /\ Handled(r.s, "export_all", r.out)
             /\ exports' = r.exports
    /\ UNCHANGED <<timers, disk, config, closed>>

\* The user types into an entry field of the calibration grid.
EditEntry ==
    /\ Live
    /\ \E cell \in EditCells : \E text \in EntryTexts :
          Handled([self EXCEPT !.calib_entries[cell[1]][cell[2]] = text],
                  "calib_entries", "ok")
    /\ UNCHANGED <<timers, disk, config, exports, closed>>

ApplyMatrix ==
    /\ Live
    /\ \E pinv \in {"returns", "raises"} :
          LET r == _apply_calibration(self, pinv)
          IN /\ r.out # "error" => pinv \in compute_pinv_outcomes(r.s.absorb_matrix)
             /\ r.out = "error" => pinv = "returns"
             /\ Handled(r.s, "_apply_calibration", r.out)
    /\ UNCHANGED <<timers, disk, config, exports, closed>>

ResetDefault ==
    /\ Live
    /\ LET r == _reset_calibration(self)
       IN Handled(r.s, "_reset_calibration", r.out)
    /\ UNCHANGED <<timers, disk, config, exports, closed>>

\* The preset menu stores the chosen name, then calls _apply_preset.
PresetSelect ==
    /\ Live
    /\ \E name \in PresetNames :
          LET r == _apply_preset([self EXCEPT !.calib_preset = name], "returns")
          IN Handled(r.s, "_apply_preset", r.out)
    /\ UNCHANGED <<timers, disk, config, exports, closed>>

\* Load JSON on the chosen file.
LoadJSONFile(file) ==
    /\ Live
    /\ \E pinv \in {"returns", "raises"} :
          LET r == _load_calibration_file(self, TRUE, file, pinv)
          IN /\ r.out # "error" => pinv \in compute_pinv_outcomes(r.s.absorb_matrix)
             /\ r.out = "error" => pinv = "returns"
             /\ Handled(r.s, "_load_calibration_file", r.out)
    /\ UNCHANGED <<timers, disk, config, exports, closed>>

LoadJSON == \E file \in CalibFiles \cup {disk} : LoadJSONFile(file)

SaveJSON ==
    /\ Live
    /\ \E write_ok \in BOOLEAN :
          LET r == _save_calibration_file(self, disk, TRUE, write_ok)
          IN /\ r.out = "exception" => write_ok
             /\ Handled(self, "_save_calibration_file", r.out)
             /\ disk' = r.file
    /\ UNCHANGED <<timers, config, exports, closed>>

\* _on_close: _save_settings (a failure to write is swallowed), then the window is
\* destroyed.
OnClose ==
    /\ Live
    /\ \E write_ok \in BOOLEAN :
          config' = IF write_ok THEN Settings(self, SettingsFields) ELSE config
    /\ closed' = TRUE
    /\ Handled(self, "_on_close", "ok")
    /\ UNCHANGED <<timers, disk, exports>>

Next ==
    \/ \E path \in ImagePaths : OpenImage(path)
    \/ AfterCallback
    \/ RedBoostScale
    \/ GrayNeutralScale
    \/ PreviewScaleMenu
    \/ PrecisionMenu
    \/ ContrastScale
    \/ WhiteBalanceScale
    \/ GainScale
    \/ OffsetScale
    \/ GammaScale
    \/ AiCheckbutton
    \/ AiStrengthScale
    \/ PreviewQualityMenu
    \/ ResetChannels
    \/ ResetParams
    \/ ResetTuning
    \/ ChannelCheckbutton
    \/ CompositeModeRadio
    \/ CompositeResize
    \/ ExportAll
    \/ EditEntry
    \/ ApplyMatrix
    \/ ResetDefault
    \/ PresetSelect
    \/ LoadJSON
    \/ SaveJSON
    \/ OnClose

Spec == Init /\ [][Next]_vars

\* ------------------------------------------------------------- properties

\* The handlers of the four calibration operations.
CalibrationOps ==
    {"_apply_calibration", "_reset_calibration", "_load_calibration_file",
     "_apply_preset"}

\* The widgets and buttons that change a tuning parameter.
TuningOps ==
    {"red_boost", "gray_neutral", "wb_r", "wb_g", "wb_b", "global_gain",
     "global_offset", "contrast_boost", "precision_mode", "preview_scale",
     "ai_enabled", "ai_strength", "_reset_params", "_reset_tuning"}

\* The handlers that render the composite without recomputing the channel maps.
CompositeOps == {"channel_enabled", "composite_mode", "_on_composite_resize"}

\* C1: in every reachable state absorb_pinv is the pseudo-inverse of absorb_matrix.
\* The code assigns absorb_matrix before compute_pinv has returned, so a matrix on
\* which np.linalg.pinv raises stays stored next to the pseudo-inverse of the one
\* before it.
C1_PinvOfMatrix == self.absorb_pinv = compute_pinv(self.absorb_matrix)

\* An entry field holds a number: a decimal literal.
NumericText(t) == t[1] = "dec"

\* A calibration file is well formed: it has the field absorb, holding three rows of
\* six JSON numbers.
WellFormedFile(file) ==
    /\ file.exists
    /\ file.json
    /\ file.has_absorb
    /\ Len(file.absorb) = 3
    /\ \A r \in 1..Len(file.absorb) :
          /\ Len(file.absorb[r]) = 6
          /\ \A c \in 1..Len(file.absorb[r]) : file.absorb[r][c][1] = "num"

\* The handler reported an error and left the pair and the channel maps as they were.
Rejected ==
    /\ outcome' = "error"
    /\ self'.absorb_matrix = self.absorb_matrix
    /\ self'.absorb_pinv = self.absorb_pinv
    /\ self'.channel_arrays = self.channel_arrays

\* C2: on malformed calibration input (an entry field that is no number on Apply
\* Matrix; a file whose absorb is missing, holds a cell that is no number, or is not
\* 3x6 on Load JSON) the operation is reported as an error, the pair is what it was
\* and the channel maps are not recomputed.
C2_MalformedInputRejected ==
    [][/\ (/\ event' = "_apply_calibration"
           /\ \E r \in Rows : \E c \in Cols : ~NumericText(self.calib_entries[r][c]))
          => Rejected
       /\ \A file \in CalibFiles \cup {disk} :
             (~WellFormedFile(file) /\ LoadJSONFile(file)) => Rejected]_vars

\* C3: with an image loaded, when a handler that changes the matrix or a tuning
\* parameter has run (and did not refuse its input), the channel maps are those
\* compute_channels gives for the current image, pair and parameters.
C3_ChannelMapsCurrent ==
    (/\ self.original_image # NoImage
     /\ event \in CalibrationOps \cup TuningOps
     /\ outcome \notin {"error", "cancelled"})
    => self.channel_arrays =
          compute_channels(self, WorkImage(self.original_image, self.preview_scale))

\* C4: once load_image has stored a new image, a composite rendered by a channel
\* checkbox, a composite mode button or a resize event is not rendered from channel
\* maps computed from the image before it.
C4_CompositeFromCurrentImage ==
    [][(event' \in CompositeOps /\ self'.tk_composite # self.tk_composite)
       => ChannelSource(self'.tk_composite.comp.ch_stack.of) = self'.original_image]_vars

\* C5: a file that does not decode is reported and nothing changes: no field of the
\* object (image, path, channel maps and images, matrix, pseudo-inverse) and no
\* _process_image callback is scheduled.
C5_FailedLoadChangesNothing ==
    [][(event' = "load_image" /\ outcome' = "error")
       => (self' = self /\ timers' = timers)]_vars

\* C5 happens: a file failed to decode while an image and its channel maps were held.
C5_Witness ==
    /\ event = "load_image"
    /\ outcome = "error"
    /\ self.original_image # NoImage
    /\ self.channel_arrays # NoChannels

\* C6: every 3x6 matrix that Apply Matrix or Load JSON accepts is installed: the
\* handler runs to its end, compute_pinv having returned a 6x3 result that is stored
\* with the matrix.
C6_AcceptedMatrixInstalled ==
    (event \in {"_apply_calibration", "_load_calibration_file"} /\ outcome # "error")
    => /\ outcome = "ok"
       /\ self.absorb_pinv = compute_pinv(self.absorb_matrix)
       /\ self.absorb_pinv.shape = <<6, 3>>

\* C7: the six channel maps hold values in [0,1] only and have the size of the
\* working image: the source image or its copy scaled by preview_scale.
C7_ChannelMapsRangeAndShape ==
    self.channel_arrays # NoChannels
    => /\ ChannelsInUnitRange(self.channel_arrays)
       /\ \E scale \in {100, self.preview_scale} :
             ChannelSize(self.channel_arrays)
                = WorkImage(self.original_image, scale).size

\* C8: the matrix Save JSON writes is absorb_matrix, the one the channel computation
\* uses.
C8_SavedMatrixIsActive ==
    (event = "_save_calibration_file" /\ outcome = "ok")
    => np_array(disk.absorb) = self.absorb_matrix

\* C9: only the four calibration operations change absorb_matrix or absorb_pinv.
C9_OnlyCalibrationChangesPair ==
    [][(\/ self'.absorb_matrix # self.absorb_matrix
        \/ self'.absorb_pinv # self.absorb_pinv)
       => event' \in CalibrationOps]_vars

\* C9 happens: Reset Tuning has run on an image while a matrix other than the default
\* was active, and has recomputed the channel maps with it.
C9_Witness ==
    /\ event = "_reset_tuning"
    /\ self.absorb_matrix # DEFAULT_ABSORBANCE
    /\ self.channel_arrays # NoChannels
    /\ self.channel_arrays.pinv = self.absorb_pinv

\* C10: at startup the pair is (DEFAULT_ABSORBANCE, DEFAULT_PINV), DEFAULT_PINV being
\* the pseudo-inverse of DEFAULT_ABSORBANCE, whatever the settings file holds; the
\* pair is another one only after a calibration operation has run.
C10_StartsWithDefaultPair ==
    /\ event = "__init__"
       => /\ self.absorb_matrix = DEFAULT_ABSORBANCE
          /\ self.absorb_pinv = DEFAULT_PINV
          /\ DEFAULT_PINV = compute_pinv(DEFAULT_ABSORBANCE)
    /\ (self.absorb_matrix # DEFAULT_ABSORBANCE \/ self.absorb_pinv # DEFAULT_PINV)
       => steps > 0

\* C10 happens: the program has started on a settings file that names another preset.
C10_Witness ==
    /\ event = "__init__"
    /\ config.exists
    /\ config.calib_preset # "Orthogonal CMY (default)"
    /\ self.calib_preset = config.calib_preset

\* The composite that the channel maps, the disabled channels, the matrix and the
\* composite mode determine: the planes of the maps, the disabled ones zeroed, at the
\* size of the image they were computed from, reconstructed through the matrix
\* (match) or tinted.
CompositeOf(channels, zeroed, absorb, mode) ==
    LET size == ChannelSource(channels).size
        ch_stack == [of |-> channels, zeroed |-> zeroed, size |-> size,
                     resized |-> ChannelSize(channels) # size]
    IN IF mode = "match"
       THEN [mode |-> "match", ch_stack |-> ch_stack, absorb |-> absorb]
       ELSE [mode |-> "tint", ch_stack |-> ch_stack, absorb |-> <<>>]

\* C11: the composite a channel checkbox or a composite mode button renders is a
\* function of the channel maps, the set of disabled channels, the matrix and the
\* composite mode alone: the same four give the same composite, whatever was toggled
\* or rendered before.
C11_CompositeDetermined ==
    (/\ event \in {"channel_enabled", "composite_mode"}
     /\ self.channel_arrays # NoChannels
     /\ self.original_image # NoImage)
    => self.tk_composite.comp =
          CompositeOf(self.channel_arrays, Keys \ self.channel_enabled,
                      self.absorb_matrix, self.composite_mode)

\* C20: every entry of the active absorbance matrix lies in [0, 1.2].
C20_MatrixEntriesInRange ==
    \A r \in Rows : \A c \in Cols :
        /\ self.absorb_matrix[r][c] >= 0
        /\ self.absorb_matrix[r][c] <= 12000

\* ---------------------------------------------------------------------------
\* The colour model on numbers.  The application model above keeps buffers as
\* terms; the definitions below compute color_model.py on exact rationals
\* <<numerator, denominator>>, so that its arithmetic identities are checked on
\* values.  Rounding of float32 is not modelled, except where numpy's result
\* depends on it (the rank decision of linalg.pinv), which is an outcome the
\* model enumerates.  A zero denominator stands for the IEEE results of a
\* division by zero: <<1, 0>> is inf, <<-1, 0>> is -inf, <<0, 0>> is nan.
\* ---------------------------------------------------------------------------
RECURSIVE Gcd(_, _)
Gcd(a, b) == IF b = 0 THEN a ELSE Gcd(b, a % b)

Abs(n) == IF n < 0 THEN 0 - n ELSE n

Sign(n) == IF n > 0 THEN 1 ELSE IF n < 0 THEN 0 - 1 ELSE 0

Q(n, d) ==
    IF d = 0 THEN <<Sign(n), 0>>
    ELSE LET g == Gcd(Abs(n), Abs(d))
         IN <<Sign(d) * (n \div g), Abs(d) \div g>>

RZero == Q(0, 1)

ROne == Q(1, 1)

RFinite(x) == x[2] # 0

RNeg(x) == <<0 - x[1], x[2]>>

RAdd(x, y) ==
    IF ~RFinite(x) THEN (IF ~RFinite(y) /\ y # x THEN Q(0, 0) ELSE x)
    ELSE IF ~RFinite(y) THEN y
    ELSE LET g == Gcd(x[2], y[2])
         IN Q(x[1] * (y[2] \div g) + y[1] * (x[2] \div g), (x[2] \div g) * y[2])

RSub(x, y) == RAdd(x, RNeg(y))

RMul(x, y) ==
    IF ~RFinite(x) \/ ~RFinite(y) THEN Q(Sign(x[1]) * Sign(y[1]), 0)
    ELSE LET g1 == Gcd(Abs(x[1]), y[2])
             g2 == Gcd(Abs(y[1]), x[2])
         IN Q((x[1] \div g1) * (y[1] \div g2), (x[2] \div g2) * (y[2] \div g1))

RDiv(x, y) ==
    IF ~RFinite(y) THEN (IF RFinite(x) THEN RZero ELSE Q(0, 0))
    ELSE IF y[1] = 0 THEN Q(x[1], 0)
    ELSE RMul(x, Q(y[2], y[1]))

\* Comparisons are false when an operand is nan, as in IEEE arithmetic.
RLe(x, y) ==
    IF x = Q(0, 0) \/ y = Q(0, 0) THEN FALSE
    ELSE IF ~RFinite(x) THEN x[1] < 0 \/ x = y
    ELSE IF ~RFinite(y) THEN y[1] > 0
    ELSE LET g == Gcd(x[2], y[2])
         IN x[1] * (y[2] \div g) <= y[1] * (x[2] \div g)

RLt(x, y) == RLe(x, y) /\ x # y

RAbs(x) == <<Abs(x[1]), x[2]>>

\* np.clip(x, lo, hi): np.minimum(np.maximum(x, lo), hi), nan passing through.
clip(x, lo, hi) ==
    IF x = Q(0, 0) THEN x
    ELSE IF RLt(x, lo) THEN lo
    ELSE IF RLt(hi, x) THEN hi
    ELSE x

InUnit(x) == RLe(RZero, x) /\ RLe(x, ROne)

\* With(x, f) is f applied to the value of x, which is computed once.
With(x, f(_)) == CHOOSE y \in {f(v) : v \in {x}} : TRUE

\* Vectors and matrices are sequences (of rows); MatMul is numpy's @.
RECURSIVE RSumTo(_, _)
RSumTo(v, n) == IF n = 0 THEN RZero ELSE RAdd(RSumTo(v, n - 1), v[n])

Dot(a, b) ==
    With([k \in 1..Len(a) |-> RMul(a[k], b[k])], LAMBDA v : RSumTo(v, Len(v)))

MatVec(m, v) == With(<<m, v>>, LAMBDA x : [i \in 1..Len(x[1]) |-> Dot(x[1][i], x[2])])

Transpose(m) == [j \in 1..Len(m[1]) |-> [i \in 1..Len(m) |-> m[i][j]]]

MatMul(a, b) ==
    With(<<a, Transpose(b)>>,
         LAMBDA x : [i \in 1..Len(x[1]) |-> [j \in 1..Len(x[2]) |-> Dot(x[1][i], x[2][j])]])

MatAdd(a, b) == [i \in 1..Len(a) |-> [j \in 1..Len(a[i]) |-> RAdd(a[i][j], b[i][j])]]

MatSub(a, b) == [i \in 1..Len(a) |-> [j \in 1..Len(a[i]) |-> RSub(a[i][j], b[i][j])]]

MatScale(k, a) == [i \in 1..Len(a) |-> [j \in 1..Len(a[i]) |-> RMul(k, a[i][j])]]

Identity(n) == [i \in 1..n |-> [j \in 1..n |-> IF i = j THEN ROne ELSE RZero]]

Outer(u, v) == [i \in 1..Len(u) |-> [j \in 1..Len(v) |-> RMul(u[i], v[j])]]

IsZeroMatrix(a) == \A i \in 1..Len(a) : \A j \in 1..Len(a[i]) : a[i][j] = RZero

\* The Moore-Penrose inverse that the singular value decomposition of
\* np.linalg.pinv computes when its small singular values are recognised as zero:
\* pinv(a) = a^T (a a^T)^+, and the pseudo-inverse of the symmetric 3x3 Gram matrix
\* g = a a^T follows from its characteristic polynomial (c1 = tr g, c2 the sum of
\* its principal 2x2 minors, c3 = det g): the inverse when c3 # 0 (rank 3),
\* ((c1^2 - c2) g - c1 g^2) / c2^2 when c3 = 0 # c2 (rank 2), g / c1^2 when only
\* c1 # 0 (rank 1), and zero for the zero matrix.
Trace3(g) == RAdd(RAdd(g[1][1], g[2][2]), g[3][3])

Minor(g, i, j) ==
    LET r == CHOOSE p \in (1..3) \X (1..3) : p[1] < p[2] /\ i \notin {p[1], p[2]}
        c == CHOOSE p \in (1..3) \X (1..3) : p[1] < p[2] /\ j \notin {p[1], p[2]}
    IN RSub(RMul(g[r[1]][c[1]], g[r[2]][c[2]]), RMul(g[r[1]][c[2]], g[r[2]][c[1]]))

Cofactor(g, i, j) == IF (i + j) % 2 = 0 THEN Minor(g, i, j) ELSE RNeg(Minor(g, i, j))

Det3(g) ==
    RAdd(RAdd(RMul(g[1][1], Cofactor(g, 1, 1)), RMul(g[1][2], Cofactor(g, 1, 2))),
         RMul(g[1][3], Cofactor(g, 1, 3)))

Adj3(g) == [i \in 1..3 |-> [j \in 1..3 |-> Cofactor(g, j, i)]]

Minors2(g) == RAdd(RAdd(Minor(g, 1, 1), Minor(g, 2, 2)), Minor(g, 3, 3))

GramRank(g) ==
    IF Det3(g) # RZero THEN 3
    ELSE IF Minors2(g) # RZero THEN 2
    ELSE IF Trace3(g) # RZero THEN 1
    ELSE 0

GramPinvOf(g, c1, c2, c3) ==
    IF c3 # RZero THEN MatScale(RDiv(ROne, c3), Adj3(g))
    ELSE IF c2 # RZero
    THEN MatScale(RDiv(ROne, RMul(c2, c2)),
                  MatSub(MatScale(RSub(RMul(c1, c1), c2), g),
                         MatScale(c1, MatMul(g, g))))
    ELSE IF c1 # RZero THEN MatScale(RDiv(ROne, RMul(c1, c1)), g)
    ELSE g

GramPinv(g) ==
    With(g, LAMBDA m :
       With(<<Trace3(m), Minors2(m), Det3(m)>>, LAMBDA c : GramPinvOf(m, c[1], c[2], c[3])))

Gram(a) == MatMul(a, Transpose(a))

matrix_rank(a) == GramRank(Gram(a))

MoorePenrose(a) == MatMul(Transpose(a), GramPinv(Gram(a)))

\* np.linalg.pinv(a) with numpy's default cutoff rcond = 1e-15 on a float32 matrix:
\* a singular value that is zero in exact arithmetic is computed either as exactly
\* zero (outcome "exact": the Moore-Penrose inverse) or as rounding noise of the
\* order of 1e-8 relative to the largest one, which is above the cutoff and is
\* inverted (outcome "noise": the Moore-Penrose inverse plus a term
\* InvertedNoise * n u^T, u in the left and n in the right null space of a).
\* A matrix of full row rank and the zero matrix have no such singular value.
svd_outcomes(a) ==
    IF matrix_rank(a) = 3 \/ IsZeroMatrix(a) THEN {"exact"} ELSE {"exact", "noise"}

InvertedNoise == Q(1000 * 1000, 1)

FirstNonzeroColumn(m) ==
    LET t == Transpose(m)
        nonzero(j) == \E i \in 1..Len(t[j]) : t[j][i] # RZero
        first == CHOOSE j \in 1..Len(t) : nonzero(j) /\ \A k \in 1..(j - 1) : ~nonzero(k)
    IN t[first]

\* The transpose in place of the pseudo-inverse.
linalg_pinv_transpose(a, svd) == Transpose(a)

InflatedBy(a, mp) ==
    LET u == FirstNonzeroColumn(MatSub(Identity(Len(a)), MatMul(a, mp)))
        n == FirstNonzeroColumn(MatSub(Identity(Len(mp)), MatMul(mp, a)))
    IN MatAdd(mp, MatScale(InvertedNoise, Outer(n, u)))

linalg_pinv(a, svd) ==
    With(MoorePenrose(a),
         LAMBDA mp : IF svd = "exact" THEN mp ELSE With(InflatedBy(a, mp), LAMBDA r : r))

\* The module constants as numbers: DEFAULT_ABSORBANCE, and DEFAULT_PINV (its
\* pseudo-inverse, computed once at import) to five decimals.
AsNumbers(m) == [r \in 1..Len(m) |-> [c \in 1..Len(m[r]) |-> Q(m[r][c], Unit)]]

DEFAULT_PINV_values ==
    LET v == << <<81897, 0 - 23125, 0 - 23125>>,
                <<0 - 23125, 76720, 0 - 28543>>,
                <<0 - 23125, 0 - 28543, 76720>>,
                <<26266, 18458, 18458>>,
                <<0 - 915, 20589, 20589>>,
                <<12382, 8702, 8702>> >>
    IN [r \in 1..6 |-> [c \in 1..3 |-> Q(v[r][c], 10 * Unit)]]

\* Arrays of pixels: shape (h, w, depth), the pixels in row-major order.
NoArray == <<>>

Array(h, w, px) == [h |-> h, w |-> w, px |-> px]

shape(a) == <<a.h, a.w, Len(a.px[1])>>

\* The decomposition applied to the image instead of to its deficit 1 - rgb.
channels_from_rgb_linear_of_image(rgb_lin, absorb, pinv) ==
    LET ch == [p \in 1..Len(rgb_lin.px) |-> MatVec(pinv, rgb_lin.px[p])]
    IN Array(rgb_lin.h, rgb_lin.w,
             [p \in 1..Len(ch) |->
                 [i \in 1..Len(ch[p]) |-> clip(ch[p][i], RZero, ROne)]])

channels_from_rgb_linear(rgb_lin, absorb, pinv) ==
    LET target == [p \in 1..Len(rgb_lin.px) |->
                      [k \in 1..Len(rgb_lin.px[p]) |-> RSub(ROne, rgb_lin.px[p][k])]]
        ch == [p \in 1..Len(target) |-> MatVec(pinv, target[p])]
    IN Array(rgb_lin.h, rgb_lin.w,
             [p \in 1..Len(ch) |->
                 [i \in 1..Len(ch[p]) |-> clip(ch[p][i], RZero, ROne)]])

\* The reconstruction without its final clamp.
rgb_linear_from_channels_unclamped(channels, absorb) ==
    LET effect == [p \in 1..Len(channels.px) |-> MatVec(absorb, channels.px[p])]
    IN Array(channels.h, channels.w,
             [p \in 1..Len(effect) |->
                 [k \in 1..Len(effect[p]) |-> RSub(ROne, effect[p][k])]])

rgb_linear_from_channels(channels, absorb) ==
    LET effect == [p \in 1..Len(channels.px) |-> MatVec(absorb, channels.px[p])]
        rgb_lin == [p \in 1..Len(effect) |->
                       [k \in 1..Len(effect[p]) |-> RSub(ROne, effect[p][k])]]
    IN Array(channels.h, channels.w,
             [p \in 1..Len(rgb_lin) |->
                 [k \in 1..Len(rgb_lin[p]) |-> clip(rgb_lin[p][k], RZero, ROne)]])

\* Inputs of the colour model: matrices with entries in the nominal range, of
\* every rank, and small images of linear RGB.
Ints(m) == [r \in 1..Len(m) |-> [c \in 1..Len(m[r]) |-> Q(m[r][c], 1)]]

PureCMY == Ints(<< <<1, 0, 0, 0, 0, 0>>, <<0, 1, 0, 0, 0, 0>>, <<0, 0, 1, 0, 0, 0>> >>)

Overprint == Ints(<< <<1, 0, 0, 1, 0, 1>>, <<0, 1, 0, 1, 1, 1>>, <<0, 0, 1, 1, 1, 1>> >>)

Halved == MatScale(Q(1, 2), Overprint)

EqualRows == Ints(<< <<1, 0, 0, 1, 0, 1>>, <<1, 0, 0, 1, 0, 1>>, <<0, 0, 1, 1, 1, 1>> >>)

OneInk == Ints(<< <<0, 0, 0, 1, 0, 0>>, <<0, 0, 0, 1, 0, 0>>, <<0, 0, 0, 1, 0, 0>> >>)

NoInk == Ints(<< <<0, 0, 0, 0, 0, 0>>, <<0, 0, 0, 0, 0, 0>>, <<0, 0, 0, 0, 0, 0>> >>)

SmallMatrices == {PureCMY, Overprint, Halved, EqualRows, OneInk, NoInk}

White == <<ROne, ROne, ROne>>

Black == <<RZero, RZero, RZero>>

Gray == <<Q(1, 2), Q(1, 2), Q(1, 2)>>

PaleCyan == <<Q(1, 2), ROne, ROne>>

Orange == <<ROne, Q(1, 2), RZero>>

RgbImages ==
    {Array(1, 1, <<c>>) : c \in {White, Black, Gray, PaleCyan, Orange}}
    \cup {Array(1, 2, <<White, Black>>), Array(2, 1, <<Black, PaleCyan>>),
          Array(2, 2, <<White, Gray, Orange, Black>>)}

ChannelImages ==
    {Array(1, 1, << <<ROne, ROne, ROne, ROne, ROne, ROne>> >>),
     Array(1, 1, << <<ROne, RZero, RZero, RZero, RZero, RZero>> >>),
     Array(1, 2, << <<RZero, RZero, RZero, RZero, RZero, RZero>>,
                    <<Q(1, 2), Q(1, 2), RZero, RZero, RZero, ROne>> >>)}

\* A separation: a matrix, the pseudo-inverse in use with the matrix it was computed
\* from (the module's defaults, or compute_pinv of a matrix, which need not be the
\* one in use), an image, its channel maps and the image reconstructed from them.
Separation(absorb, pinv, pinv_from, rgb_lin, channels) ==
    [kind |-> "separation", absorb |-> absorb, pinv |-> pinv, pinv_from |-> pinv_from,
     rgb_lin |-> rgb_lin, channels |-> channels, rgb_out |-> NoArray]

Separations ==
    LET pairs == {<<m, NoArray, NoArray>> : m \in SmallMatrices}
                 \cup {<<AsNumbers(DEFAULT_ABSORBANCE), DEFAULT_PINV_values,
                         AsNumbers(DEFAULT_ABSORBANCE)>>}
    IN {Separation(p[1], p[2], p[3], img, NoArray) : p \in pairs, img \in RgbImages}
       \cup {Separation(p[1], p[2], p[3], NoArray, ch) : p \in pairs, ch \in ChannelImages}

Computed(c) ==
    /\ calc' = c
    /\ UNCHANGED <<self, timers, disk, config, exports, closed, event, outcome, steps>>

ComputePinv ==
    /\ calc.kind = "separation"
    /\ calc.pinv = NoArray
    /\ \E m \in {calc.absorb, PureCMY} : \E svd \in svd_outcomes(m) :
          Computed([calc EXCEPT !.pinv = linalg_pinv(m, svd), !.pinv_from = m])

Decompose ==
    /\ calc.kind = "separation"
    /\ calc.pinv # NoArray
    /\ calc.rgb_lin # NoArray
    /\ calc.channels = NoArray
    /\ Computed([calc EXCEPT
                    !.channels = channels_from_rgb_linear(calc.rgb_lin, calc.absorb, calc.pinv)])

Reconstruct ==
    /\ calc.kind = "separation"
    /\ calc.channels # NoArray
    /\ calc.rgb_out = NoArray
    /\ Computed([calc EXCEPT
                    !.rgb_out = rgb_linear_from_channels(calc.channels, calc.absorb)])

\* ---------------------------------------------------------------------------
\* Channel contrast: _enhance_channel_maps on numbers.
\* ---------------------------------------------------------------------------
RECURSIVE Sorted(_)
Sorted(v) ==
    IF Len(v) <= 1 THEN v
    ELSE LET rest == Sorted(Tail(v))
             k == Cardinality({i \in 1..Len(rest) : RLt(rest[i], Head(v))})
         IN SubSeq(rest, 1, k) \o <<Head(v)>> \o SubSeq(rest, k + 1, Len(rest))

\* np.percentile(ch, q), q in percent: linear interpolation between the two order
\* statistics around position q / 100 * (N - 1) of the flattened plane.
Interpolated(s, pos) ==
    LET k == pos[1] \div pos[2]
        frac == RSub(pos, Q(k, 1))
    IN IF k + 1 >= Len(s) THEN s[Len(s)]
       ELSE RAdd(s[k + 1], RMul(frac, RSub(s[k + 2], s[k + 1])))

percentile(ch, q) ==
    With(Sorted(ch),
         LAMBDA s : Interpolated(s, RMul(RDiv(q, Q(100, 1)), Q(Len(s) - 1, 1))))

\* x ** (1.0 / boost) for the boosts of the model; a square root that is not
\* rational is computed to three decimals (of x rounded to three decimals), as a
\* float computes it to its precision.
RootDigits == 10 * 10 * 10

IntSqrt(n) == CHOOSE r \in 0..(2 * RootDigits) : r * r <= n /\ n < (r + 1) * (r + 1)

IsSquare(n) == \E r \in 0..(2 * RootDigits) : r * r = n

Sqrt(x) ==
    IF IsSquare(x[1]) /\ IsSquare(x[2]) THEN Q(IntSqrt(x[1]), IntSqrt(x[2]))
    ELSE Q(IntSqrt(((x[1] * RootDigits) \div x[2]) * RootDigits), RootDigits)

power(x, e) ==
    CASE e = ROne -> x
      [] e = Q(1, 2) -> IF x = RZero \/ x = ROne THEN x ELSE Sqrt(x)

Spread == Q(1, 100 * 1000)

\* (ch - lo) / (hi - lo), clipped; first with a guard term added to the divisor.
stretch_with_epsilon(ch, lo, hi) ==
    [p \in 1..Len(ch) |->
        clip(RDiv(RSub(ch[p], lo), RAdd(RSub(hi, lo), Q(1, 100))), RZero, ROne)]

stretch(ch, lo, hi) ==
    [p \in 1..Len(ch) |-> clip(RDiv(RSub(ch[p], lo), RSub(hi, lo)), RZero, ROne)]

\* The body of the loop over the planes, for a plane ch with percentiles lo and hi.
boosted(ch, boost) ==
    [p \in 1..Len(ch) |-> clip(power(ch[p], RDiv(ROne, boost)), RZero, ROne)]

enhance_plane_guarding_zero(ch, boost) ==
    With(<<ch, percentile(ch, Q(1, 2)), percentile(ch, Q(199, 2))>>,
         LAMBDA v :
            IF RSub(v[3], v[2]) = RZero THEN v[1]
            ELSE IF RLt(ROne, boost)
            THEN With(stretch(v[1], v[2], v[3]), LAMBDA st : boosted(st, boost))
            ELSE stretch(v[1], v[2], v[3]))

enhance_plane(ch, boost) ==
    With(<<ch, percentile(ch, Q(1, 2)), percentile(ch, Q(199, 2))>>,
         LAMBDA v :
            IF RLt(RSub(v[3], v[2]), Spread) THEN v[1]
            ELSE IF RLt(ROne, boost)
            THEN With(stretch(v[1], v[2], v[3]), LAMBDA st : boosted(st, boost))
            ELSE stretch(v[1], v[2], v[3]))

Depth(channels) == Len(channels.px[1])

Plane(channels, idx) == [p \in 1..Len(channels.px) |-> channels.px[p][idx]]

\* The percentiles taken once, over all the planes together.
_enhance_channel_maps_with_global_percentiles(channels, boost) ==
    LET all == [n \in 1..(Len(channels.px) * Depth(channels)) |->
                   channels.px[((n - 1) \div Depth(channels)) + 1]
                              [((n - 1) % Depth(channels)) + 1]]
        lo == percentile(all, Q(1, 2))
        hi == percentile(all, Q(199, 2))
        out == [idx \in 1..Depth(channels) |->
                   IF RLt(RSub(hi, lo), Spread) THEN Plane(channels, idx)
                   ELSE IF RLt(ROne, boost)
                   THEN [p \in 1..Len(channels.px) |->
                            clip(power(stretch(Plane(channels, idx), lo, hi)[p],
                                       RDiv(ROne, boost)), RZero, ROne)]
                   ELSE stretch(Plane(channels, idx), lo, hi)]
    IN Array(channels.h, channels.w,
             [p \in 1..Len(channels.px) |-> [idx \in 1..Depth(channels) |-> out[idx][p]]])

_enhance_channel_maps(channels, boost) ==
    With(<<channels,
           [idx \in 1..Depth(channels) |-> enhance_plane(Plane(channels, idx), boost)]>>,
         LAMBDA v :
            Array(v[1].h, v[1].w,
                  [p \in 1..Len(v[1].px) |-> [idx \in 1..Len(v[2]) |-> v[2][idx][p]]]))

\* Inputs: stacks of planes with values in [0, 1], as compute_channels clips them
\* before the enhancement (app.py 626), and the contrast boosts 1.0 and 2.0 of the
\* slider's ends and 0.5 out of a settings file.
Stretched == <<RZero, RZero, Q(1, 2), ROne, ROne>>

Flat == <<Q(1, 2), Q(1, 2), Q(1, 2), Q(1, 2), Q(1, 2)>>

Faint == <<RZero, RZero, RZero, Q(1, 200 * 1000), Q(1, 200 * 1000)>>

Narrow == <<Q(1, 4), Q(1, 4), Q(1, 2), Q(3, 4), Q(3, 4)>>

Ramp == <<ROne, Q(3, 4), RZero, Q(1, 4), Q(1, 2)>>

Planes == {Stretched, Flat, Faint, Narrow, Ramp}

Stack(h, w, planes) ==
    Array(h, w, [p \in 1..(h * w) |-> [idx \in 1..Len(planes) |-> planes[idx][p]]])

Stacks ==
    {Stack(1, 5, <<a>>) : a \in Planes}
    \cup {Stack(5, 1, <<a, b>>) : a \in Planes, b \in Planes}
    \cup {Stack(1, 5, <<Ramp, Faint, Stretched, Flat, Narrow, Ramp>>),
          Stack(2, 2, <<Ramp, Flat>>), Stack(2, 2, <<Narrow, Stretched, Faint>>)}

Boosts == {Q(1, 2), ROne, Q(2, 1)}

Enhancement(channels, boost) ==
    [kind |-> "enhance", channels |-> channels, boost |-> boost,
     once |-> NoArray, twice |-> NoArray]

Enhancements == {Enhancement(ch, b) : ch \in Stacks, b \in Boosts}

Enhance ==
    /\ calc.kind = "enhance"
    /\ calc.once = NoArray
    /\ Computed([calc EXCEPT !.once = _enhance_channel_maps(calc.channels, calc.boost)])

EnhanceAgain ==
    /\ calc.kind = "enhance"
    /\ calc.once # NoArray
    /\ calc.twice = NoArray
    /\ Computed([calc EXCEPT !.twice = _enhance_channel_maps(calc.once, calc.boost)])

\* ---------------------------------------------------------------------------
\* The sRGB transfer functions.  x ** 2.4 and x ** (1 / 2.4) are irrational for
\* rational x, so a value is kept as the term scale * base ^ (p / q) + offset of
\* rationals, which is exact: a power of a power multiplies the exponents, and a
\* term is compared with a rational by comparing integer powers, computed on
\* naturals of any size (sequences of limbs, least significant first).
\* ---------------------------------------------------------------------------
Limb == 10 * 10 * 10

RECURSIVE BFromInt(_)
BFromInt(n) == IF n = 0 THEN <<>> ELSE <<n % Limb>> \o BFromInt(n \div Limb)

RECURSIVE BAddC(_, _, _)
BAddC(a, b, carry) ==
    IF a = <<>> /\ b = <<>> THEN BFromInt(carry)
    ELSE LET x == (IF a = <<>> THEN 0 ELSE a[1]) + (IF b = <<>> THEN 0 ELSE b[1]) + carry
         IN <<x % Limb>> \o BAddC(IF a = <<>> THEN a ELSE Tail(a),
                                  IF b = <<>> THEN b ELSE Tail(b), x \div Limb)

RECURSIVE BMulSmallC(_, _, _)
BMulSmallC(a, k, carry) ==
    IF a = <<>> THEN BFromInt(carry)
    ELSE LET x == a[1] * k + carry
         IN <<x % Limb>> \o BMulSmallC(Tail(a), k, x \div Limb)

RECURSIVE BMul(_, _)
BMul(a, b) ==
    IF a = <<>> \/ b = <<>> THEN <<>>
    ELSE With(<<BMul(Tail(a), b), IF a[1] = 0 THEN <<>> ELSE BMulSmallC(b, a[1], 0)>>,
              LAMBDA v : BAddC(v[2], IF v[1] = <<>> THEN v[1] ELSE <<0>> \o v[1], 0))

RECURSIVE BPow(_, _)
BPow(a, n) == IF n = 0 THEN <<1>> ELSE With(BPow(a, n - 1), LAMBDA r : BMul(a, r))

RECURSIVE BLeFrom(_, _, _)
BLeFrom(a, b, i) ==
    IF i = 0 THEN TRUE
    ELSE IF a[i] # b[i] THEN a[i] < b[i]
    ELSE BLeFrom(a, b, i - 1)

BLe(a, b) ==
    IF Len(a) # Len(b) THEN Len(a) < Len(b) ELSE BLeFrom(a, b, Len(a))

\* x ^ p <= y ^ q for rationals x, y >= 0.
PowLe(x, p, y, q) ==
    With(<<BMul(BPow(BFromInt(x[1]), p), BPow(BFromInt(y[2]), q)),
           BMul(BPow(BFromInt(y[1]), q), BPow(BFromInt(x[2]), p))>>,
         LAMBDA v : BLe(v[1], v[2]))

\* The term scale * base ^ (p / q) + offset, with scale > 0 and base >= 0; Exact(v)
\* is the rational v.
Exact(v) == [scale |-> ROne, base |-> v, p |-> 1, q |-> 1, offset |-> RZero]

Term(scale, base, p, q, offset) ==
    IF p = q \/ base = RZero \/ base = ROne THEN Exact(RAdd(RMul(scale, base), offset))
    ELSE [scale |-> scale, base |-> base, p |-> p \div Gcd(p, q), q |-> q \div Gcd(p, q),
          offset |-> offset]

IsExact(t) == t.p = t.q

\* t <= c and t >= c for a rational c.
TermLe(t, c) ==
    IF IsExact(t) THEN RLe(t.base, c)
    ELSE LET rhs == RDiv(RSub(c, t.offset), t.scale)
         IN RLe(RZero, rhs) /\ PowLe(t.base, t.p, rhs, t.q)

TermGe(t, c) ==
    IF IsExact(t) THEN RLe(c, t.base)
    ELSE LET rhs == RDiv(RSub(c, t.offset), t.scale)
         IN RLe(rhs, RZero) \/ PowLe(rhs, t.q, t.base, t.p)

term_clip(t, lo, hi) ==
    IF ~TermGe(t, lo) THEN Exact(lo) ELSE IF ~TermLe(t, hi) THEN Exact(hi) ELSE t

term_times(k, t) == Term(RMul(k, t.scale), t.base, t.p, t.q, RMul(k, t.offset))

term_plus(t, c) == Term(t.scale, t.base, t.p, t.q, RAdd(t.offset, c))

\* t ** (p / q), for a rational or a pure power t.
term_power(t, p, q) ==
    CASE IsExact(t) -> Term(ROne, t.base, p, q, RZero)
      [] ~IsExact(t) /\ t.scale = ROne /\ t.offset = RZero ->
            Term(ROne, t.base, t.p * p, t.q * q, RZero)

Elementwise(arr, f(_)) ==
    Array(arr.h, arr.w, [i \in 1..Len(arr.px) |-> [k \in 1..Len(arr.px[i]) |-> f(arr.px[i][k])]])

\* The knee of the curve placed at 0.4045.
srgb_to_linear_with_late_knee(arr) ==
    Elementwise(arr, LAMBDA x :
        With(term_clip(x, RZero, ROne), LAMBDA v :
            IF TermLe(v, Q(4045, 10 * 1000))
            THEN term_times(Q(100, 1292), v)
            ELSE term_power(term_times(Q(1000, 1055), term_plus(v, Q(55, 1000))), 12, 5)))

srgb_to_linear(arr) ==
    Elementwise(arr, LAMBDA x :
        With(term_clip(x, RZero, ROne), LAMBDA v :
            IF TermLe(v, Q(4045, 100 * 1000))
            THEN term_times(Q(100, 1292), v)
            ELSE term_power(term_times(Q(1000, 1055), term_plus(v, Q(55, 1000))), 12, 5)))

linear_to_srgb(arr) ==
    Elementwise(arr, LAMBDA x :
        With(term_clip(x, RZero, ROne), LAMBDA v :
            IF TermLe(v, Q(31308, 10 * 1000 * 1000))
            THEN term_times(Q(1292, 100), v)
            ELSE term_plus(term_times(Q(1055, 1000), term_power(v, 5, 12)),
                           RNeg(Q(55, 1000)))))

\* Inputs: sRGB arrays with values around the knee 0.04045 of the curve, at its
\* ends, in between and outside [0, 1].
Values(h, w, px) ==
    Array(h, w, [i \in 1..Len(px) |-> [k \in 1..Len(px[i]) |-> Exact(px[i][k])]])

SrgbArrays ==
    {Values(1, 1, << <<RZero, Q(1, 2), ROne>> >>),
     Values(1, 1, << <<Q(4045, 100 * 1000), Q(4046, 100 * 1000), Q(4, 100)>> >>),
     Values(1, 1, << <<RNeg(Q(1, 2)), Q(3, 2), Q(1, 5)>> >>),
     Values(2, 1, << <<Q(40449, 1000 * 1000), Q(40450, 1000 * 1000), Q(2, 1000)>>,
                     <<Q(1, 1000), Q(3, 4), Q(99, 100)>> >>),
     Values(1, 2, << <<Q(40448, 1000 * 1000)>>, <<Q(1, 10)>> >>),
     Values(2, 2, << <<RZero>>, <<Q(404, 10 * 1000)>>, <<Q(405, 10 * 1000)>>, <<ROne>> >>)}

Transfer(srgb) == [kind |-> "transfer", srgb |-> srgb, lin |-> NoArray, back |-> NoArray]

Transfers == {Transfer(a) : a \in SrgbArrays}

ToLinear ==
    /\ calc.kind = "transfer"
    /\ calc.lin = NoArray
    /\ Computed([calc EXCEPT !.lin = srgb_to_linear(calc.srgb)])

ToSrgb ==
    /\ calc.kind = "transfer"
    /\ calc.lin # NoArray
    /\ calc.back = NoArray
    /\ Computed([calc EXCEPT !.back = linear_to_srgb(calc.lin)])

\* ---------------------------------------------------------------------------
\* Binary floating point.  The composite is encoded by truncation,
\* (srgb * 255.0).astype(np.uint8), so the last bit of srgb decides the byte:
\* the arithmetic of the composite is modelled with IEEE rounding.  A float is
\* (-1) ^ neg * m / 2 ^ e for naturals m (limbs, least significant first) and e,
\* kept with m odd or e = 0, or it is FNaN; every operation rounds its exact
\* result to the bits of the dtype, to nearest with ties to even.
\* ---------------------------------------------------------------------------
Float32 == 24

Float64 == 53

FNaN == [neg |-> FALSE, m |-> <<>>, e |-> 0 - 1]

FZero == [neg |-> FALSE, m |-> <<>>, e |-> 0]

FOne == [neg |-> FALSE, m |-> <<1>>, e |-> 0]

\* Quotient and remainder of the natural a by a small k.
RECURSIVE BDivMod(_, _)
BDivMod(a, k) ==
    IF a = <<>> THEN <<a, 0>>
    ELSE With(BDivMod(Tail(a), k), LAMBDA hi :
            LET x == hi[2] * Limb + a[1]
            IN <<IF hi[1] = <<>> /\ x \div k = 0 THEN <<>> ELSE <<x \div k>> \o hi[1],
                 x % k>>)

RECURSIVE BTrim(_)
BTrim(a) == IF a = <<>> \/ a[Len(a)] # 0 THEN a ELSE BTrim(SubSeq(a, 1, Len(a) - 1))

\* a - b for naturals a >= b.
RECURSIVE BSubC(_, _, _)
BSubC(a, b, borrow) ==
    IF a = <<>> THEN a
    ELSE LET x == a[1] - (IF b = <<>> THEN 0 ELSE b[1]) - borrow
         IN <<(x + Limb) % Limb>> \o
            BSubC(Tail(a), IF b = <<>> THEN b ELSE Tail(b), IF x < 0 THEN 1 ELSE 0)

BSub(a, b) == BTrim(BSubC(a, b, 0))

\* Bits are moved at most Stride at a time, which keeps a limb times 2 ^ Stride
\* a machine integer.
Stride == 4 * 4

Step(k) == IF k > Stride THEN Stride ELSE k

RECURSIVE BitLength(_)
BitLength(a) ==
    IF a = <<>> THEN 0
    ELSE IF Len(a) > 2 THEN With(BDivMod(a, 2 ^ Stride), LAMBDA d : Stride + BitLength(d[1]))
    ELSE With(BDivMod(a, 2), LAMBDA d : 1 + BitLength(d[1]))

RECURSIVE ShiftLeft(_, _)
ShiftLeft(a, k) ==
    IF k = 0 THEN a
    ELSE With(BMulSmallC(a, 2 ^ Step(k), 0), LAMBDA d : ShiftLeft(d, k - Step(k)))

\* a shifted right by k bits, with whether a nonzero bit was shifted out.
RECURSIVE ShiftRight(_, _)
ShiftRight(a, k) ==
    IF k = 0 THEN <<a, FALSE>>
    ELSE With(BDivMod(a, 2 ^ Step(k)), LAMBDA d :
            With(ShiftRight(d[1], k - Step(k)), LAMBDA r : <<r[1], r[2] \/ d[2] # 0>>))

RECURSIVE Normal(_)
Normal(x) ==
    IF x.m = <<>> THEN FZero
    ELSE IF x.e = 0 \/ x.m[1] % 2 = 1 THEN x
    ELSE With(BDivMod(x.m, 2 ^ Step(x.e)), LAMBDA d :
            IF d[2] = 0 THEN Normal([x EXCEPT !.m = d[1], !.e = x.e - Step(x.e)])
            ELSE With(BDivMod(x.m, 2), LAMBDA h :
                    Normal([x EXCEPT !.m = h[1], !.e = x.e - 1])))

\* (-1) ^ neg * (m + a fraction that is nonzero iff sticky) / 2 ^ e rounded to bits.
Rounded(bits, neg, m, e, sticky) ==
    With(BitLength(m), LAMBDA length :
        IF length <= bits THEN Normal([neg |-> neg, m |-> m, e |-> e])
        ELSE With(ShiftRight(m, length - bits - 1), LAMBDA s :
                With(BDivMod(s[1], 2), LAMBDA d :
                    LET up == d[2] = 1 /\ (s[2] \/ sticky \/ d[1][1] % 2 = 1)
                    IN Normal([neg |-> neg,
                               m |-> IF up THEN BAddC(d[1], <<>>, 1) ELSE d[1],
                               e |-> e - (length - bits)]))))

\* The float nearest to n / (d1 * d2), as np.float32(0.055) is.
Float(bits, n, d1, d2) ==
    With(BDivMod(ShiftLeft(BFromInt(Abs(n)), bits + 32 + 32), d1), LAMBDA a :
        With(BDivMod(a[1], d2), LAMBDA b :
            Rounded(bits, n < 0, b[1], bits + 32 + 32, a[2] # 0 \/ b[2] # 0)))

astype(x, bits) == IF x = FNaN THEN x ELSE Rounded(bits, x.neg, x.m, x.e, FALSE)

\* |a| <= |b| for floats.
FAbsLe(a, b) ==
    LET e == IF a.e > b.e THEN a.e ELSE b.e
    IN BLe(ShiftLeft(a.m, e - a.e), ShiftLeft(b.m, e - b.e))

FLe(a, b) ==
    CASE a = FNaN \/ b = FNaN -> FALSE
      [] a.neg /\ ~b.neg -> TRUE
      [] ~a.neg /\ b.neg -> a = FZero /\ b = FZero
      [] a.neg /\ b.neg -> FAbsLe(b, a)
      [] OTHER -> FAbsLe(a, b)

FMul(bits, a, b) ==
    IF a = FNaN \/ b = FNaN THEN FNaN
    ELSE Rounded(bits, a.neg # b.neg, BMul(a.m, b.m), a.e + b.e, FALSE)

FAdd(bits, a, b) ==
    IF a = FNaN \/ b = FNaN THEN FNaN
    ELSE LET e == IF a.e > b.e THEN a.e ELSE b.e
             ma == ShiftLeft(a.m, e - a.e)
             mb == ShiftLeft(b.m, e - b.e)
         IN CASE a.neg = b.neg -> Rounded(bits, a.neg, BAddC(ma, mb, 0), e, FALSE)
              [] a.neg # b.neg /\ BLe(mb, ma) -> Rounded(bits, a.neg, BSub(ma, mb), e, FALSE)
              [] OTHER -> Rounded(bits, b.neg, BSub(mb, ma), e, FALSE)

FSub(bits, a, b) == FAdd(bits, a, IF b = FNaN THEN b ELSE Normal([b EXCEPT !.neg = ~b.neg]))

\* np.clip: a nan stays a nan.
FClip(x, lo, hi) ==
    CASE x = FNaN -> x
      [] x # FNaN /\ ~FLe(lo, x) -> lo
      [] x # FNaN /\ FLe(lo, x) /\ ~FLe(x, hi) -> hi
      [] OTHER -> x

\* The integer part of a float x >= 0, as a number.
RECURSIVE BToInt(_)
BToInt(a) == IF a = <<>> THEN 0 ELSE a[1] + Limb * BToInt(Tail(a))

Truncated(x) == BToInt(ShiftRight(x.m, x.e)[1])

\* ---------------------------------------------------------------------------
\* The composite of update_composite, on floats: the planes of the disabled
\* channels replaced by zeros, then the reconstruction, the transfer curve and
\* the bytes (match), or the sum of the tinted planes and the bytes (tint).  The
\* maps have the size of the image, so no plane is resized, and the view gamma
\* is 1.0, so comp_img is the image shown.
\* ---------------------------------------------------------------------------
FromRational(bits, x) ==
    CASE x = RZero -> FZero
      [] x = ROne -> FOne
      [] x[2] # 0 /\ x # RZero /\ x # ROne -> Float(bits, x[1], x[2], 1)
      [] x = <<0, 0>> -> FNaN

FloatMatrix(bits, m) ==
    [r \in 1..Len(m) |-> [c \in 1..Len(m[r]) |-> FromRational(bits, m[r][c])]]

FloatArray(bits, a) ==
    Array(a.h, a.w,
          [p \in 1..Len(a.px) |-> [k \in 1..Len(a.px[p]) |-> FromRational(bits, a.px[p][k])]])

RECURSIVE FDotTo(_, _, _, _)
FDotTo(bits, row, v, n) ==
    IF n = 0 THEN FZero
    ELSE With(FDotTo(bits, row, v, n - 1), LAMBDA acc :
            FAdd(bits, acc, FMul(bits, row[n], v[n])))

\* rgb_linear_from_channels on floats: absorb is float32, the result has the
\* dtype of the channels.
rgb_linear_from_channels_float(bits, channels, absorb) ==
    LET effect == [p \in 1..Len(channels.px) |->
                      [r \in 1..Len(absorb) |-> FDotTo(bits, absorb[r], channels.px[p], Len(absorb[r]))]]
    IN Array(channels.h, channels.w,
             [p \in 1..Len(effect) |->
                 [k \in 1..Len(effect[p]) |->
                     FClip(FSub(bits, FOne, effect[p][k]), FZero, FOne)]])

\* x ** (1 / 2.4), where pow is exact: at 0, at 1 and at nan.
float_power(x) ==
    CASE x = FNaN -> FNaN
      [] x = FZero -> FZero
      [] x = FOne -> FOne

\* The literals of the curve and of the encoding, in each dtype.
Literal ==
    [bits \in {Float32, Float64} |->
        [knee |-> Float(bits, 31308, 10 * 1000, 1000), slope |-> Float(bits, 1292, 100, 1),
         scale |-> Float(bits, 1055, 1000, 1), offset |-> Float(bits, 55, 1000, 1),
         bytes |-> Float(bits, 255, 1, 1)]]

linear_to_srgb_float(bits, arr) ==
    Array(arr.h, arr.w,
          [p \in 1..Len(arr.px) |->
              [k \in 1..Len(arr.px[p]) |->
                  With(FClip(arr.px[p][k], FZero, FOne), LAMBDA v :
                      IF FLe(v, Literal[bits].knee)
                      THEN FMul(bits, v, Literal[bits].slope)
                      ELSE FSub(bits, FMul(bits, Literal[bits].scale, float_power(v)),
                                Literal[bits].offset))]])

\* (x * 255.0).astype(np.uint8) for 0 <= x <= 1: the product rounded, then its
\* integer part; the byte of a nan is not defined.
NanBytes == {0, 255}

astype_uint8(bits, arr, nan_byte) ==
    Array(arr.h, arr.w,
          [p \in 1..Len(arr.px) |->
              [k \in 1..Len(arr.px[p]) |->
                  IF arr.px[p][k] = FNaN THEN nan_byte
                  ELSE Truncated(FMul(bits, arr.px[p][k], Literal[bits].bytes))]])

Hex ==
    [cyan |-> <<0, 188, 212>>, magenta |-> <<233, 30, 99>>, yellow |-> <<255, 235, 59>>,
     black |-> <<34, 34, 34>>, red |-> <<255, 23, 68>>, gray |-> <<158, 158, 158>>]

\* _hex_to_rgb01 divides in double precision; the tint is then stored as float32.
_hex_to_rgb01 == [key \in Keys |-> [k \in 1..3 |-> Float(Float64, Hex[key][k], 255, 1)]]

tint == [key \in Keys |-> [k \in 1..3 |-> astype(_hex_to_rgb01[key][k], Float32)]]

RECURSIVE TintTo(_, _, _, _)
TintTo(bits, pixel, k, idx) ==
    IF idx = 0 THEN FZero
    ELSE With(TintTo(bits, pixel, k, idx - 1), LAMBDA base :
            astype(FAdd(bits, base,
                        FMul(bits, pixel[idx], tint[INK_CHANNELS[idx]][k])),
                   Float32))

selected_channels(channel_arrays, enabled) ==
    Array(channel_arrays.h, channel_arrays.w,
          [p \in 1..Len(channel_arrays.px) |->
              [idx \in 1..Len(INK_CHANNELS) |->
                  IF INK_CHANNELS[idx] \in enabled THEN channel_arrays.px[p][idx] ELSE FZero]])

\* The arrays before the bytes: rgb_lin and srgb (match), base (tint).
composite_arrays(c) ==
    LET ch_stack == selected_channels(FloatArray(c.bits, c.channel_arrays), c.channel_enabled)
    IN IF c.composite_mode = "match"
       THEN With(rgb_linear_from_channels_float(c.bits, ch_stack, FloatMatrix(Float32, c.absorb)),
                 LAMBDA rgb_lin :
                     [rgb_lin |-> rgb_lin, bits |-> c.bits,
                      out |-> linear_to_srgb_float(c.bits, rgb_lin)])
       ELSE [rgb_lin |-> NoArray, bits |-> Float32,
             out |-> Array(ch_stack.h, ch_stack.w,
                           [p \in 1..Len(ch_stack.px) |->
                               [k \in 1..3 |->
                                   FClip(TintTo(c.bits, ch_stack.px[p], k, Len(INK_CHANNELS)),
                                         FZero, FOne)]])]

comp_img(c, nan_byte) ==
    With(composite_arrays(c), LAMBDA a :
        [c EXCEPT !.rgb_lin = a.rgb_lin,
                  !.comp_img = astype_uint8(a.bits, a.out, nan_byte)])

\* Inputs: plates of full or no ink, every one of them under the matrices whose
\* reconstruction stays at 0, 1 or nan; a matrix with an unmeasured (nan) entry
\* is one that Apply Matrix and Load JSON install.
Plate(h, w, px) ==
    Array(h, w, [p \in 1..Len(px) |-> [idx \in 1..Len(px[p]) |-> Q(px[p][idx], 1)]])

Plates ==
    {Plate(1, 1, << <<0, 0, 0, 0, 0, 0>> >>),
     Plate(1, 1, << <<1, 0, 0, 0, 0, 0>> >>),
     Plate(1, 1, << <<1, 1, 1, 1, 1, 1>> >>),
     Plate(1, 2, << <<0, 1, 1, 0, 0, 0>>, <<0, 0, 0, 1, 0, 0>> >>),
     Plate(2, 1, << <<0, 0, 0, 0, 1, 1>>, <<1, 0, 1, 0, 0, 1>> >>)}

EnabledSets == {{}, Keys, {"cyan"}, Keys \ {"black"}, {"magenta", "yellow", "gray"}}

Unmeasured == [PureCMY EXCEPT ![2][5] = <<0, 0>>]

CompositeMatrices ==
    {AsNumbers(DEFAULT_ABSORBANCE), PureCMY, Overprint, Halved, NoInk, Unmeasured}

Composite(channel_arrays, enabled, absorb, mode, bits) ==
    [kind |-> "composite", channel_arrays |-> channel_arrays, channel_enabled |-> enabled,
     absorb |-> absorb, composite_mode |-> mode, bits |-> bits,
     rgb_lin |-> NoArray, comp_img |-> NoArray]

Saturated(c) ==
    LET ch_stack == selected_channels(FloatArray(c.bits, c.channel_arrays), c.channel_enabled)
        rgb_lin == rgb_linear_from_channels_float(c.bits, ch_stack, FloatMatrix(Float32, c.absorb))
    IN \A p \in 1..Len(rgb_lin.px) : \A k \in 1..3 : rgb_lin.px[p][k] \in {FZero, FOne, FNaN}

Composites ==
    {c \in {Composite(ch, en, a, mode, bits) :
                ch \in Plates, en \in EnabledSets, a \in CompositeMatrices,
                mode \in {"match", "tint"}, bits \in {Float32, Float64}} : Saturated(c)}

RenderComposite ==
    /\ calc.kind = "composite"
    /\ calc.comp_img = NoArray
    /\ \E nan_byte \in NanBytes : Computed(comp_img(calc, nan_byte))

\* The specification of the colour model: one pure function per step.
ColorInit ==
    /\ config = NoSettings
    /\ self = InkSeparationApp(config)
    /\ timers = 0
    /\ disk = NoFile
    /\ exports = <<>>
    /\ closed = FALSE
    /\ event = "__init__"
    /\ outcome = "ok"
    /\ steps = 0
    /\ calc \in Separations \cup Enhancements \cup Transfers \cup Composites

ColorNext ==
    \/ ComputePinv
    \/ Decompose
    \/ Reconstruct
    \/ Enhance
    \/ EnhanceAgain
    \/ ToLinear
    \/ ToSrgb
    \/ RenderComposite

ColorSpec == ColorInit /\ [][ColorNext]_vars

\* np.allclose with equal absolute and relative tolerance.
Tolerance == Q(1, 1000)

Close(x, y) ==
    \/ x = y
    \/ RLe(RDiv(RAbs(RSub(x, y)), RAdd(ROne, RAbs(y))), Tolerance)

CloseMatrix(a, b) ==
    \A i \in 1..Len(a) : \A j \in 1..Len(a[i]) : Close(a[i][j], b[i][j])

\* C19: the matrix compute_pinv returns for a 3x6 matrix A satisfies P A P = P and
\* A P A = A within tolerance, whatever the rank of A.
C19_PenroseIdentities ==
    (calc.kind = "separation" /\ calc.pinv_from \in SmallMatrices)
    => LET A == calc.pinv_from
           P == calc.pinv
       IN /\ CloseMatrix(MatMul(MatMul(P, A), P), P)
          /\ CloseMatrix(MatMul(MatMul(A, P), A), A)

\* Claims about the colour model quantify over finite numbers: the non-finite
\* matrices are the subject of the calibration claims above.
Pixels(a) == 1..Len(a.px)

HasFullRowRank(a) == a = AsNumbers(DEFAULT_ABSORBANCE) \/ matrix_rank(a) = 3

\* No component of pinv @ (1 - rgb) is clamped.
Unclamped(rgb_lin, pinv) ==
    \A p \in Pixels(rgb_lin) :
       LET ch == MatVec(pinv, [k \in 1..3 |-> RSub(ROne, rgb_lin.px[p][k])])
       IN \A i \in 1..Len(ch) : InUnit(ch[i])

\* C13: for a matrix A of full row rank with P = pinv(A), reconstructing the
\* channel maps of an image gives the image back within tolerance wherever no
\* component of P @ (1 - rgb) was clamped; with the default pair, black comes back
\* as black.
C13_RoundTrip ==
    (/\ calc.kind = "separation"
     /\ calc.rgb_lin # NoArray
     /\ calc.rgb_out # NoArray
     /\ calc.pinv_from = calc.absorb
     /\ HasFullRowRank(calc.absorb)
     /\ Unclamped(calc.rgb_lin, calc.pinv))
    => /\ shape(calc.rgb_out) = shape(calc.rgb_lin)
       /\ \A p \in Pixels(calc.rgb_lin) : \A k \in 1..3 :
             Close(calc.rgb_out.px[p][k], calc.rgb_lin.px[p][k])

C13_Witness ==
    /\ calc.kind = "separation"
    /\ calc.rgb_lin # NoArray
    /\ calc.rgb_out # NoArray
    /\ calc.absorb = AsNumbers(DEFAULT_ABSORBANCE)
    /\ calc.pinv = DEFAULT_PINV_values
    /\ Unclamped(calc.rgb_lin, calc.pinv)
    /\ \E p \in Pixels(calc.rgb_lin) :
          calc.rgb_lin.px[p] = Black /\ calc.channels.px[p][4] # RZero

Low(ch) == percentile(ch, Q(1, 2))

High(ch) == percentile(ch, Q(199, 2))

Least(ch) == CHOOSE x \in {ch[p] : p \in 1..Len(ch)} : \A p \in 1..Len(ch) : RLe(x, ch[p])

Greatest(ch) == CHOOSE x \in {ch[p] : p \in 1..Len(ch)} : \A p \in 1..Len(ch) : RLe(ch[p], x)

\* C15: at contrast boost 1.0, for a plane whose 0.5th percentile is 0 and whose
\* 99.5th percentile is 1, enhancing twice gives the plane that enhancing once gives.
C15_StretchIdempotent ==
    (calc.kind = "enhance" /\ calc.twice # NoArray /\ calc.boost = ROne)
    => \A idx \in 1..Depth(calc.channels) :
          (/\ Low(Plane(calc.channels, idx)) = RZero
           /\ High(Plane(calc.channels, idx)) = ROne)
          => Plane(calc.twice, idx) = Plane(calc.once, idx)

C15_Witness ==
    /\ calc.kind = "enhance"
    /\ calc.twice # NoArray
    /\ calc.boost = ROne
    /\ Depth(calc.channels) > 1
    /\ \E idx \in 1..Depth(calc.channels) :
          /\ Low(Plane(calc.channels, idx)) = RZero
          /\ High(Plane(calc.channels, idx)) = ROne
          /\ \E p \in Pixels(calc.channels) :
                RLt(RZero, calc.channels.px[p][idx]) /\ RLt(calc.channels.px[p][idx], ROne)

\* C16: a plane whose percentile spread is below 1e-5 comes out of the enhancement
\* unchanged whatever the contrast boost, nothing of the result is inf or nan, and
\* the other planes of the stack are stretched to the full range.
C16_DegeneratePlaneUnchanged ==
    (calc.kind = "enhance" /\ calc.once # NoArray)
    => \A idx \in 1..Depth(calc.channels) :
          LET ch == Plane(calc.channels, idx)
              out == Plane(calc.once, idx)
          IN /\ \A p \in 1..Len(out) : RFinite(out[p])
             /\ RLt(RSub(High(ch), Low(ch)), Spread) => out = ch
             /\ ~RLt(RSub(High(ch), Low(ch)), Spread)
                   => Least(out) = RZero /\ Greatest(out) = ROne

C16_Witness ==
    /\ calc.kind = "enhance"
    /\ calc.once # NoArray
    /\ calc.boost = Q(2, 1)
    /\ \E idx \in 1..Depth(calc.channels) :
          LET ch == Plane(calc.channels, idx)
          IN /\ RLt(RSub(High(ch), Low(ch)), Spread)
             /\ Least(ch) # Greatest(ch)
    /\ \E idx \in 1..Depth(calc.channels) :
          LET ch == Plane(calc.channels, idx)
          IN /\ ~RLt(RSub(High(ch), Low(ch)), Spread)
             /\ Least(ch) # RZero
             /\ Plane(calc.once, idx) # ch

Only(channels, idx) ==
    Array(channels.h, channels.w, [p \in Pixels(channels) |-> <<channels.px[p][idx]>>])

Reversed(channels) ==
    Array(channels.h, channels.w,
          [p \in Pixels(channels) |->
              [idx \in 1..Depth(channels) |-> channels.px[p][Depth(channels) + 1 - idx]]])

\* C17: output plane i of the enhancement is what the enhancement gives for plane
\* i alone at the same boost, whatever the other planes hold and in whichever order
\* the planes are processed; without boost it is the plane stretched between the
\* percentiles of the whole input plane.
C17_PlanesSeparate ==
    (calc.kind = "enhance" /\ calc.once # NoArray)
    => \A idx \in 1..Depth(calc.channels) :
          LET ch == Plane(calc.channels, idx)
              out == Plane(calc.once, idx)
          IN /\ out = Plane(_enhance_channel_maps(Only(calc.channels, idx), calc.boost), 1)
             /\ out = Plane(_enhance_channel_maps(Reversed(calc.channels), calc.boost),
                            Depth(calc.channels) + 1 - idx)
             /\ (~RLt(ROne, calc.boost) /\ ~RLt(RSub(High(ch), Low(ch)), Spread))
                => \A p \in 1..Len(ch) :
                      out[p] = clip(RDiv(RSub(ch[p], Low(ch)), RSub(High(ch), Low(ch))),
                                    RZero, ROne)

C17_Witness ==
    /\ calc.kind = "enhance"
    /\ calc.once # NoArray
    /\ Depth(calc.channels) = 6
    /\ \E i, j \in 1..Depth(calc.channels) :
          /\ Plane(calc.channels, i) # Plane(calc.channels, j)
          /\ Low(Plane(calc.channels, i)) # Low(Plane(calc.channels, j))
          /\ Plane(calc.once, i) # Plane(calc.channels, i)

RoundTripTolerance == Q(1, 100 * 1000)

\* C18: linear_to_srgb(srgb_to_linear(x)) has the shape of x and is within 1e-5 of
\* x elementwise for values of [0, 1]; a value outside [0, 1] is clamped first, so it
\* goes to 0 or 1 and comes back as 0 or 1.
C18_TransferRoundTrip ==
    (calc.kind = "transfer" /\ calc.back # NoArray)
    => /\ shape(calc.back) = shape(calc.srgb)
       /\ Len(calc.back.px) = Len(calc.srgb.px)
       /\ \A i \in Pixels(calc.srgb) : \A k \in 1..Len(calc.srgb.px[i]) :
             LET x == clip(calc.srgb.px[i][k].base, RZero, ROne)
             IN /\ TermLe(calc.back.px[i][k], RAdd(x, RoundTripTolerance))
                /\ TermGe(calc.back.px[i][k], RSub(x, RoundTripTolerance))
                /\ x \in {RZero, ROne} => calc.lin.px[i][k] = Exact(x)

C18_Witness ==
    /\ calc.kind = "transfer"
    /\ calc.back # NoArray
    /\ \E i \in Pixels(calc.srgb) : \E k \in 1..Len(calc.srgb.px[i]) :
          /\ ~IsExact(calc.back.px[i][k])
          /\ calc.srgb.px[i][k].base = Q(4045, 100 * 1000)
    /\ \E i \in Pixels(calc.srgb) : \E k \in 1..Len(calc.srgb.px[i]) :
          /\ ~IsExact(calc.lin.px[i][k])
          /\ calc.back.px[i][k] = calc.srgb.px[i][k]

\* ---------------------------------------------------------------------------
\* Export, composite and calibration display (application model, Spec).
\* ---------------------------------------------------------------------------

\* The channel maps of the current image at the selected preview scale.
PreviewChannels(s) ==
    compute_channels(s, WorkImage(s.original_image, s.preview_scale))

\* C21: when export_all has recomputed the maps at full resolution and ends, by
\* completing or by a failure to write a file, the channel maps and the channel
\* images are again those computed at the selected preview scale.
C21_ExportRestoresPreview ==
    (event = "export_all" /\ outcome \in {"ok", "exception"})
    => /\ self.channel_arrays = PreviewChannels(self)
       /\ self.channel_images = _array_to_image(PreviewChannels(self))

\* The physical reconstruction of the enabled channels of the current image at full
\* resolution: composite mode and view gamma do not occur in it.
FullReconstruction(s) ==
    [mode |-> "match",
     ch_stack |-> [of |-> compute_channels(s, WorkImage(s.original_image, 100)),
                   zeroed |-> Keys \ s.channel_enabled,
                   size |-> s.original_image.size,
                   resized |-> FALSE],
     absorb |-> s.absorb_matrix]

\* C22: the composite an export writes is the physical reconstruction of the enabled
\* channels at full resolution, whatever the composite mode and the view gamma are,
\* so two exports that differ in these alone write the same image; the composite on
\* screen is rendered in the selected mode with the selected gamma.
C22_ExportedCompositeIsReconstruction ==
    (event = "export_all" /\ outcome = "ok")
    => /\ exports.composite = FullReconstruction(self)
       /\ self.tk_composite.comp.mode = self.composite_mode
       /\ self.tk_composite.gamma = self.view_gamma

C22_Witness ==
    /\ event = "export_all"
    /\ outcome = "ok"
    /\ self.composite_mode = "tint"
    /\ exports.composite.mode = "match"
    /\ self.tk_composite.comp.mode = "tint"

\* A click on the checkbox of channel key: the flag is flipped and update_composite
\* runs.
Toggled(s, key) ==
    update_composite(
        [s EXCEPT !.channel_enabled = IF key \in @ THEN @ \ {key} ELSE @ \cup {key}])

\* C23: in every state with channel maps, disabling an enabled channel and enabling
\* it again, by its checkbox or by Reset Channels, leaves the channel maps as they
\* were and gives the composite that was on screen before the channel was disabled.
C23_ToggleRoundTrip ==
    self.channel_arrays # NoChannels
    => \A key \in self.channel_enabled :
          LET off == Toggled(self, key)
          IN /\ off.channel_arrays = self.channel_arrays
             /\ Toggled(off, key).channel_arrays = self.channel_arrays
             /\ Toggled(off, key).tk_composite = self.tk_composite
             /\ self.channel_enabled = Keys
                   => _enable_all_channels(off).tk_composite = self.tk_composite

\* C24: with all six channels disabled the composite is uniform for any image and
\* any matrix: in match mode every component is 1 in linear RGB and 255 after
\* encoding, in tint mode every component is 0.
C24_BlankComposite ==
    (calc.kind = "composite" /\ calc.comp_img # NoArray /\ calc.channel_enabled = {})
    => \A p \in 1..Len(calc.comp_img.px) : \A k \in 1..3 :
          IF calc.composite_mode = "match"
          THEN /\ calc.rgb_lin.px[p][k] = FOne
               /\ calc.comp_img.px[p][k] = 255
          ELSE calc.comp_img.px[p][k] = 0

\* C25: Reset Default installs the built-in pair with its values of startup,
\* whatever was done before, and that pair is the one selecting the preset
\* 'Orthogonal CMY (default)' installs.
C25_ResetInstallsBuiltInPair ==
    event = "_reset_calibration"
    => /\ outcome = "ok"
       /\ self.absorb_matrix = DEFAULT_ABSORBANCE
       /\ self.absorb_pinv = DEFAULT_PINV
       /\ self.absorb_matrix = InkSeparationApp(config).absorb_matrix
       /\ self.absorb_pinv = InkSeparationApp(config).absorb_pinv
       /\ LET r == _apply_preset([self EXCEPT !.calib_preset = "Orthogonal CMY (default)"],
                                 "returns")
          IN /\ r.out = "ok"
             /\ r.s.absorb_matrix = self.absorb_matrix
             /\ r.s.absorb_pinv = self.absorb_pinv

C25_Witness ==
    /\ event = "_reset_calibration"
    /\ self.calib_preset = "Soft Black"
    /\ self.absorb_matrix # CALIB_PRESETS[self.calib_preset]
    /\ steps > 1

CalibrationEvents ==
    {"_apply_calibration", "_reset_calibration", "_load_calibration_file", "_apply_preset"}

\* C26: after each calibration operation that succeeds (Apply Matrix, Reset
\* Default, Load JSON, preset select) every entry field shows, to three decimals,
\* the entry of the active absorbance matrix.
C26_EntriesShowMatrix ==
    (event \in CalibrationEvents /\ outcome = "ok")
    => \A r \in Rows : \A c \in Cols :
          /\ ~FloatRaises(self.calib_entries[r][c])
          /\ Format3f(FloatOf(self.calib_entries[r][c])) = Format3f(self.absorb_matrix[r][c])

\* C27: right after startup (also with a preset name restored from the settings
\* file), after every preset selection and after Reset Default, the matrix named
\* by the preset selector is the active one: absorb_matrix = CALIB_PRESETS[calib_preset].
C27_PresetNamesMatrix ==
    (event \in {"__init__", "_apply_preset", "_reset_calibration"} /\ outcome = "ok")
    => /\ self.calib_preset \in DOMAIN CALIB_PRESETS
       /\ self.absorb_matrix = CALIB_PRESETS[self.calib_preset]

\* The application with its Tk timer: a callback scheduled with root.after fires
\* while the window is open.
FairSpec == Init /\ [][Next]_vars /\ WF_vars(AfterCallback)

MapsOfLatestImage ==
    /\ self.channel_arrays # NoChannels
    /\ ChannelSource(self.channel_arrays) = self.original_image

\* C28: after a load_image that succeeds the deferred _process_image callback
\* eventually runs (the timer fires unless the window is closed first), and from
\* then on channel_arrays holds the maps computed from the most recently loaded
\* image; every callback processes the image that is the latest when it fires;
\* there are channel maps only while an image is loaded.
C28_MapsFollowLoadedImage ==
    /\ [](event = "load_image" /\ outcome = "ok"
            => <>(closed \/ event = "_process_image"))
    /\ [](event = "_process_image" => []MapsOfLatestImage)
    /\ [](event = "_process_image"
            => self.channel_arrays = PreviewChannels(self))
    /\ [](self.channel_arrays # NoChannels => self.original_image # NoImage)

====
